---- MODULE Spec2Model ----
(***************************************************************************)
(* Verification model of the spectral absorption-coefficient engine of    *)
(* pylbl / pyrad:                                                          *)
(*   - the tabulated cross-section resolver (band overlap resolution),     *)
(*     pyrad/lbl/hitran/cross_sections.py and                              *)
(*     pyrad/lbl/hitran/collision_induced_absorption.py;                   *)
(*   - the line-record normaliser and the windowed absorption summation,   *)
(*     in its three revisions hitran.py, pyrad/lbl/hitran/lines.py and     *)
(*     pyrad/lbl/hitran/spectral_lines.py.                                 *)
(* Wavenumbers, temperatures and pressures are small integers.  Real      *)
(* valued results (interpolated cross sections, half-widths, corrected    *)
(* strengths, profile values) are kept as terms that name the inputs the  *)
(* code computes them from.                                                *)
(***************************************************************************)
EXTENDS Integers, Sequences, FiniteSets, Bags, TLC

(***************************************************************************)
(* Bounds of the model.                                                    *)
(***************************************************************************)
MaxWavenumber == 5   \* band limits are drawn from 0..MaxWavenumber
GridLow == 2         \* first wavenumber of the query grid of the resolver
GridSize == 3        \* number of points of the query grid of the resolver
MaxBands == 3        \* longest band list
MaxTables == 2       \* most Table temperatures in one band
MaxTemp == 3         \* table and query temperatures are drawn from 1..MaxTemp
MaxRecords == 2      \* longest batch of line records
MaxCenter == 2       \* line centers v of the records are drawn from 1..MaxCenter
MaxIso == 2          \* isotopologue ids of the records are drawn from 0..MaxIso
MaxShifted == 4      \* shifted line centers and grid wavenumbers are drawn from 0..MaxShifted
MaxLines == 2        \* most lines in the windowed summation
MaxGrid == 2         \* most grid points in the windowed summation
MaxCutOff == 2       \* cut_off is drawn from 1..MaxCutOff
MaxDelta == 1        \* pressure-shift coefficients are drawn from 0..MaxDelta
MaxCallTemp == 2     \* the temperature of a call is drawn from 1..MaxCallTemp
MaxPressure == 2     \* the pressure of a call is drawn from 1..MaxPressure
MaxFiles == 3        \* most tables downloaded in one ingestion
MaxTableTemp == 2    \* temperatures of downloaded tables are drawn from 1..MaxTableTemp
MaxBandTables == 4   \* most tables of the band that is interpolated
MaxBatch == 2        \* most records of a batch that is ingested
MaxGamma == 2        \* Lorentz half-widths are 1..MaxGamma tenths of a wavenumber
MaxOffset == 2       \* the grid spacing is 0..MaxOffset tenths of a wavenumber
MaxStrength == 2     \* corrected strengths are drawn from 1..MaxStrength
MaxText == 5         \* longest text read by ascii_table_records
MaxBlock == 3        \* block_size is drawn from 1..MaxBlock
MaxTorr == 1         \* header pressures are 0..MaxTorr Torr
MaxWritten == 2      \* most lines written to an ascii file

\* tips_reference_temperature, the temperature of the strength pre-correction
tips_reference_temperature == 296

VARIABLES
    \* ---- tabulated cross-section resolver (HitranCrossSection / HitranCIA)
    bands,            \* self.bands: sequence of bands, as create_bands returns it
    grid,             \* the wavenumber grid passed to absorption_coefficient
    temperature,      \* the query temperature passed to absorption_coefficient
    bi,               \* position in "for band in self.bands" (next band), 0 = no call
    band_left_index,  \* the local list band_left_index
    band_right_index, \* the local list band_right_index
    cross_section,    \* the local array cross_section: per grid point, the band whose
                      \* interpolated data was written last (0 = the initial zero)
    claimer,          \* history: for each claimed range, the band that appended it
    last,             \* history: what the last loop iteration did
    \* ---- line-record normaliser (HitranSpectralLines / SpectralLines)
    impl,             \* the revision in use: "hitran", "lines" or "spectral_lines"
    line_profile,     \* the class of the line-profile object in use
    records,          \* the batch of raw line records
    ri,               \* the next record to parse
    parsed,           \* the parsed records: parameters (hitran.py), lines (lines.py),
                      \* the columns of the Hitran object (database.py)
    lines,            \* the line set under construction / constructed
    \* ---- cut-off window of absorption_coefficient
    vstar,            \* the pressure-shifted line centers, in the order of the line set
    wavenumber,       \* the grid
    cut_off,          \* the cut-off distance
    gi,               \* lines.py, hitran.py: the grid point the loop is at
    summed,           \* lines.py, hitran.py: per grid point, the lines (positions in
                      \* vstar_sorted) summed into k[i]
    li,               \* spectral_lines.py: the line the loop is at
    added,            \* spectral_lines.py: per line, the grid points it was added to
    \* ---- absorption_coefficient calls on one line set
    calls,            \* per call: its position, arguments, local variables and result;
                      \* history: "alone", the sums of the call's own half-widths
    profiles,         \* the line-profile objects: 0 is the object handed to the calls
                      \* (lines.py, hitran.py) or attached to the line set
                      \* (spectral_lines.py); c is the copy made by call c
    overlap,          \* history: two calls have been in progress at the same time
    constructed,      \* history: the line set as the constructor returned it
    \* ---- ingestion of tabulated data (download_from_web, create_bands)
    kind,             \* "xsc" (HitranCrossSection) or "cia" (HitranCIA)
    files,            \* the tables parsed from the downloaded files, in download order
    fi,               \* the next downloaded table
    tables,           \* the local list tables
    temperatures,     \* the local list temperatures
    pressures,        \* the local list pressures (HitranCrossSection only)
    band_params,      \* the local list band_params
    self_bands,       \* the attribute self.bands; <<>> while it is not assigned
    ingest,           \* "loop", "done" (self.bands assigned) or the exception raised
    \* ---- interpolation of a band's tables and the clamp of the result
    this_kind,        \* "xsc" or "cia": the class whose absorption_coefficient runs
    cur_band,         \* the tables of the band the loop is at
    method,           \* the interpolation chosen for the band; "none" before the loop
    interpolated,     \* the local array cross_section
    returned,         \* the array returned, Unbound before the return
    \* ---- ingestion of a batch of line records
    path,             \* "database", "lines", "web" or "ascii": the code that ingests
    batch,            \* the records, each a record of the texts of its fields
    bk,               \* the record the loop is at
    kept,             \* what was ingested so far, each entry with the index of its record
    outcome,          \* "loop", "returned" or the exception that left the ingestion
    columns,          \* database.py: the per-parameter lists self.<shortname>
    \* ---- temperature correction of the stored strengths
    corrected,        \* the last result of correct_line_strengths with its temperature
    \* ---- one line under the Lorentz profile on a grid of three points
    scenario,         \* the revision, the line and the grid
    call_result,      \* how the construction and the call of absorption_coefficient ended
    profile_values,   \* strength times lorentz_profile at the grid points evaluated so far
    \* ---- ascii_table_records: the generator of the lines of a downloaded text
    response,         \* the text behind the response object, a sequence of characters
    block_size,       \* the argument block_size
    position,         \* how many characters were read
    record,           \* the local variable record
    yielded,          \* the records yielded so far, in order
    generator,        \* "running", "exhausted" or the exception raised in the generator
    \* ---- HitranCrossSection written to a database and loaded back
    db,               \* the four database tables
    db_bands,         \* self.bands of the object loaded from the database
    db_state,         \* "net" (downloaded object), "written", "loaded" or the exception
    \* ---- line parameters written with write_to_ascii and read back (hitran.py)
    ascii_lines,      \* iso of the HitranSpectralLine objects handed to write_to_ascii
    ascii_file,       \* the isotopologue column of the records of the file
    ascii_read,       \* iso of the objects parse_ascii_record has filled
    ascii_pc          \* "new", "written", "read" or the exception of the parse

bandVars == <<bands, grid, temperature, bi, band_left_index, band_right_index,
              cross_section, claimer, last>>

normVars == <<impl, line_profile, records, ri, parsed, lines>>

windowVars == <<vstar, wavenumber, cut_off, gi, summed, li, added>>

callVars == <<calls, profiles, overlap, constructed>>

ingestVars == <<kind, files, fi, tables, temperatures, pressures, band_params,
                self_bands, ingest>>

interpVars == <<this_kind, cur_band, method, interpolated, returned>>

batchVars == <<path, batch, bk, kept, outcome, columns>>

strengthVars == <<corrected>>

scenarioVars == <<scenario, call_result, profile_values>>

recordVars == <<response, block_size, position, record, yielded, generator>>

dbVars == <<db, db_bands, db_state>>

asciiVars == <<ascii_lines, ascii_file, ascii_read, ascii_pc>>

\* The variables of the parts below the line engine.
extraVars == <<ingestVars, interpVars, batchVars, strengthVars, scenarioVars, recordVars, dbVars, asciiVars>>

vars == <<bands, grid, temperature, bi, band_left_index, band_right_index,
          cross_section, claimer, last,
          impl, line_profile, records, ri, parsed, lines,
          vstar, wavenumber, cut_off, gi, summed, li, added,
          calls, profiles, overlap, constructed,
          kind, files, fi, tables, temperatures, pressures, band_params,
          self_bands, ingest,
          this_kind, cur_band, method, interpolated, returned,
          path, batch, bk, kept, outcome, columns,
          corrected,
          scenario, call_result, profile_values,
          response, block_size, position, record, yielded, generator,
          db, db_bands, db_state,
          ascii_lines, ascii_file, ascii_read, ascii_pc>>

(***************************************************************************)
(* numpy.searchsorted(a, x, side): the binary search numpy runs.  The      *)
(* result is a 0-based insertion index.                                    *)
(***************************************************************************)
RECURSIVE BinarySearch(_, _, _, _, _)
BinarySearch(a, x, side, lo, hi) ==
    IF lo >= hi THEN lo
    ELSE LET mid == lo + ((hi - lo) \div 2)
             goRight == IF side = "left" THEN a[mid + 1] < x ELSE a[mid + 1] <= x
         IN IF goRight THEN BinarySearch(a, x, side, mid + 1, hi)
            ELSE BinarySearch(a, x, side, lo, mid)

searchsorted(a, x, side) == BinarySearch(a, x, side, 0, Len(a))

Abs(x) == IF x < 0 THEN -x ELSE x

SetMin(S) == CHOOSE m \in S : \A y \in S : m <= y

(***************************************************************************)
(* Tabulated cross-section resolver.                                       *)
(***************************************************************************)
\* A band: the common band_params (start, end) of its Tables and the Tables'
\* temperatures.
Ranges == {r \in (0..MaxWavenumber) \X (0..MaxWavenumber) : r[1] < r[2]}

TempSets == {ts \in SUBSET (1..MaxTemp) : ts # {} /\ Cardinality(ts) <= MaxTables}

\* create_bands orders the Tables by wavenumber[0], then wavenumber[-1]
\* (the two outer sorts), and cuts the list where band_params changes.
RangeOrder(r1, r2) ==
    \/ r1[1] < r2[1]
    \/ r1[1] = r2[1] /\ r1[2] <= r2[2]

IsRangeList(rs) == \A i \in 1..(Len(rs) - 1) : RangeOrder(rs[i], rs[i + 1])

\* min(abs(asarray([x.temperature for x in band]) - temperature))
NearestTemperature(band, t) == SetMin({Abs(x - t) : x \in band.temps})

\* "if band[0].band_params[0] > grid[-1] or band[0].band_params[1] < grid[0]"
OutsideGrid(band, g) == band.start > g[Len(g)] \/ band.end < g[1]

\* left = searchsorted(grid, band_params[0]); right = searchsorted(grid, band_params[1])
BandLeft(band, g) == searchsorted(g, band.start, "left")
BandRight(band, g) == searchsorted(g, band.end, "left")

\* The claimed ranges the overlap loop stops at: the first (lower, upper) with
\* left <= upper; 0 when the loop runs to its end.
FirstOverlap(left, uppers) ==
    IF \E j \in 1..Len(uppers) : left <= uppers[j]
    THEN SetMin({j \in 1..Len(uppers) : left <= uppers[j]})
    ELSE 0

\* The band whose Tables the loop compares with: self.bands[i], where i counts
\* the claimed ranges (enumerate(zip(band_left_index, band_right_index))).
OtherBand(bs, j) == bs[j]

\* cross_section[left:right] = <interpolation of band b>(grid[left:right])
WriteBand(xs, b, left, right) ==
    [k \in 1..Len(xs) |-> IF left < k /\ k <= right THEN b ELSE xs[k]]

NoStep == [kind |-> "none", band |-> 0, claimed |-> 0, left0 |-> 0, left |-> 0,
           right |-> 0, kept |-> FALSE]

\* One iteration of "for band in self.bands".
BandStep ==
    /\ bi >= 1 /\ bi <= Len(bands)
    /\ LET band == bands[bi]
           left0 == BandLeft(band, grid)
           right == BandRight(band, grid)
           j == FirstOverlap(left0, band_right_index)
           inside == j # 0 /\ right <= band_right_index[j]
           override == IF inside
                       THEN NearestTemperature(band, temperature) <
                            NearestTemperature(OtherBand(bands, j), temperature)
                       ELSE TRUE
           left == IF j # 0 /\ ~inside THEN band_right_index[j] ELSE left0
       IN IF OutsideGrid(band, grid)
          THEN /\ last' = [NoStep EXCEPT !.kind = "outside", !.band = bi]
               /\ UNCHANGED <<band_left_index, band_right_index, cross_section, claimer>>
          ELSE IF ~override
          THEN /\ last' = [kind |-> "inside", band |-> bi, claimed |-> j, left0 |-> left0,
                           left |-> left, right |-> right, kept |-> FALSE]
               /\ UNCHANGED <<band_left_index, band_right_index, cross_section, claimer>>
          ELSE /\ band_left_index' = Append(band_left_index, left)
               /\ band_right_index' = Append(band_right_index, right)
               /\ claimer' = Append(claimer, bi)
               /\ cross_section' = WriteBand(cross_section, bi, left, right)
               /\ last' = [kind |-> IF inside THEN "inside"
                                    ELSE IF j # 0 THEN "partial" ELSE "free",
                           band |-> bi, claimed |-> j, left0 |-> left0,
                           left |-> left, right |-> right, kept |-> TRUE]
    /\ bi' = bi + 1
    /\ UNCHANGED <<bands, grid, temperature>>
    /\ UNCHANGED <<normVars, windowVars, callVars, extraVars>>

\* The resolver when no call is modelled.
BandsIdle ==
    /\ bands = <<>>
    /\ grid = <<>>
    /\ temperature = 0
    /\ bi = 0
    /\ band_left_index = <<>>
    /\ band_right_index = <<>>
    /\ cross_section = <<>>
    /\ claimer = <<>>
    /\ last = NoStep

(***************************************************************************)
(* Line-record normaliser: the records of a batch are parsed one by one,   *)
(* then the line set is built from them.                                   *)
(*   hitran.py          HitranDatabase.read_from_ascii, HitranSpectralLines *)
(*   lines.py           SpectralLines.__init__                              *)
(*   spectral_lines.py  Hitran.parse_records, SpectralLines.__init__        *)
(* A record carries its center v, its isotopologue id iso and its pressure *)
(* shift delta; "line" is the position of the record in the batch and      *)
(* stands for the remaining columns of that record (strength, lower-state  *)
(* energy, broadening coefficients), which no decision of the code reads.  *)
(***************************************************************************)
Impls == {"hitran", "lines", "spectral_lines"}

Profiles == {"Doppler", "Lorentz", "Voigt"}

RawRecords(vs, isos, deltas) == [v : vs, iso : isos, delta : deltas]

Batches(n, R) == UNION {[1..m -> R] : m \in 0..n}

\* hitran.py: "elif column.name == "isotopologue" and value == 0: value = 10"
HitranRemapWrong(value) == value
HitranRemap(value) == IF value = 0 THEN 10 ELSE value

\* lines.py: "if self.iso == 0: self.iso = 10"
LinesRemap(iso) == IF iso = 0 THEN 10 ELSE iso

\* spectral_lines.py: "if self.iso[i] == 0: self.iso[i] = 10"
SpectralLinesRemap(iso) == IF iso = 0 THEN 10 ELSE iso

\* One record parsed into a line object (hitran.py, lines.py) or into one entry
\* of every column (database.py, which leaves iso as it is).
ParseAsciiRecord(im, rec, k) ==
    [v |-> rec.v,
     iso |-> IF im = "hitran" THEN HitranRemap(rec.iso)
             ELSE IF im = "lines" THEN LinesRemap(rec.iso)
             ELSE rec.iso,
     delta |-> rec.delta,
     line |-> k]

\* sorted(lines, key=lambda line: line.v): a stable sort.
RECURSIVE InsertByV(_, _)
InsertByV(sorted, x) ==
    IF sorted = <<>> THEN <<x>>
    ELSE IF sorted[Len(sorted)].v <= x.v THEN Append(sorted, x)
    ELSE Append(InsertByV(SubSeq(sorted, 1, Len(sorted) - 1), x), sorted[Len(sorted)])

RECURSIVE SortedByV(_)
SortedByV(ps) ==
    IF ps = <<>> THEN <<>>
    ELSE InsertByV(SortedByV(SubSeq(ps, 1, Len(ps) - 1)), ps[Len(ps)])

\* The value of temperature_correct_line_strength(q, t, iso, en, v),
\* Q(t, iso)/(exp(c2*en/t)*(1 - exp(c2*v/t))), named by its arguments.
temperature_correct_line_strength(t, iso, en, v) ==
    [t |-> t, iso |-> iso, en |-> en, v |-> v]

\* isotopologues[x-1].mass
IsotopologueMass(iso) == [mass_of |-> iso]

NoLines == [status |-> "none", v |-> <<>>, iso |-> <<>>, delta |-> <<>>, s |-> <<>>,
            mass |-> <<>>, line |-> <<>>]

\* The struct-of-arrays built from the line objects ps, the strengths multiplied
\* by the correction factor at the reference temperature, the masses looked up.
StructOfArrays(ps) ==
    LET n == Len(ps)
        iso == [k \in 1..n |-> ps[k].iso]
    IN [status |-> "ok",
        v |-> [k \in 1..n |-> ps[k].v],
        iso |-> iso,
        delta |-> [k \in 1..n |-> ps[k].delta],
        s |-> [k \in 1..n |->
                 [raw |-> ps[k].line,
                  times |-> temperature_correct_line_strength(
                                tips_reference_temperature, iso[k], ps[k].line, ps[k].v)]],
        mass |-> [k \in 1..n |-> IsotopologueMass(iso[k])],
        line |-> [k \in 1..n |-> ps[k].line]]

\* for i in range(self.iso.size): if self.iso[i] == 0: self.iso[i] = 10
RemapColumns(cols) ==
    [k \in 1..Len(cols) |-> [cols[k] EXCEPT !.iso = SpectralLinesRemap(cols[k].iso)]]

Failed(error) == [NoLines EXCEPT !.status = error]

\* HitranSpectralLines.__init__ (hitran.py)
HitranSpectralLinesInit(ps) ==
    IF ps = <<>> THEN {Failed("EmptySpectraError")}
    ELSE {StructOfArrays(SortedByV(ps))}

\* SpectralLines.__init__ (lines.py), after its parsing loop.  The module neither
\* defines nor imports EmptySpectraError, so the raise statement raises NameError.
LinesInit(ps) ==
    IF ps = <<>> THEN {Failed("NameError")}
    ELSE {StructOfArrays(SortedByV(ps))}

\* SpectralLines.__init__ (spectral_lines.py): the columns are copied in the order
\* of the database, iso is remapped, the strengths are corrected; then
\* self.line_profile.line_mixing is read, an attribute only Voigt objects have.
\* With no line at all the outcome of the partition-function lookup on empty
\* arrays is left open (it returns, or it raises IndexError).
SpectralLinesInit(cols, prof) ==
    LET after == IF prof = "Voigt"
                 THEN StructOfArrays(RemapColumns(cols))
                 ELSE Failed("AttributeError")
    IN IF cols = <<>> THEN {after, Failed("IndexError")} ELSE {after}

\* for record in ...: parse it and append it.
ParseRecord ==
    /\ lines.status = "none"
    /\ ri <= Len(records)
    /\ parsed' = Append(parsed, ParseAsciiRecord(impl, records[ri], ri))
    /\ ri' = ri + 1
    /\ UNCHANGED <<impl, line_profile, records, lines>>
    /\ UNCHANGED <<bandVars, windowVars, callVars, extraVars>>

\* The constructor, from the emptiness test to its return or its exception.
Construct ==
    /\ lines.status = "none"
    /\ ri > Len(records)
    /\ lines' \in (IF impl = "hitran" THEN HitranSpectralLinesInit(parsed)
                   ELSE IF impl = "lines" THEN LinesInit(parsed)
                   ELSE SpectralLinesInit(parsed, line_profile))
    /\ UNCHANGED <<impl, line_profile, records, ri, parsed>>
    /\ UNCHANGED <<bandVars, windowVars, callVars, extraVars>>

NormalizeInit ==
    /\ impl \in Impls
    /\ line_profile \in Profiles
    /\ records \in Batches(MaxRecords, RawRecords(1..MaxCenter, 0..MaxIso, {0}))
    /\ ri = 1
    /\ parsed = <<>>
    /\ lines = NoLines

\* The line side when no line set is modelled.
LinesIdle ==
    /\ impl = "none"
    /\ line_profile = "none"
    /\ records = <<>>
    /\ ri = 0
    /\ parsed = <<>>
    /\ lines = NoLines

(***************************************************************************)
(* The cut-off window of absorption_coefficient, as a function of the      *)
(* shifted line centers, the grid and cut_off.                             *)
(*   lines.py, hitran.py   for each grid point, the slice l:r of the lines *)
(*                         sorted by shifted center                        *)
(*   spectral_lines.py     for each line, the slice left:right of the grid *)
(***************************************************************************)
IsAscending(a) == \A k \in 1..(Len(a) - 1) : a[k] <= a[k + 1]

\* vstar[vstar.argsort()]
RECURSIVE Insert(_, _)
Insert(sorted, x) ==
    IF sorted = <<>> THEN <<x>>
    ELSE IF sorted[Len(sorted)] <= x THEN Append(sorted, x)
    ELSE Append(Insert(SubSeq(sorted, 1, Len(sorted) - 1), x), sorted[Len(sorted)])

RECURSIVE Sorted(_)
Sorted(a) ==
    IF a = <<>> THEN <<>>
    ELSE Insert(Sorted(SubSeq(a, 1, Len(a) - 1)), a[Len(a)])

vstar_sorted == Sorted(vstar)

\* searchsorted(a, x - cut_off, side="left")
LowerIndex(a, x) == searchsorted(a, x, "left")

\* searchsorted(a, x + cut_off, side="right")
UpperIndexLeftSide(a, x) == searchsorted(a, x, "left")
UpperIndex(a, x) == searchsorted(a, x, "right")

\* The positions of the slice a[l:r], counted from 1.
Slice(l, r) == (l + 1)..r

\* One iteration of "for i, v in enumerate(wavenumber)" (lines.py, hitran.py).
GridPointStep ==
    /\ gi >= 1 /\ gi <= Len(wavenumber)
    /\ LET v == wavenumber[gi]
           l == LowerIndex(vstar_sorted, v - cut_off)
           r == UpperIndex(vstar_sorted, v + cut_off)
       IN summed' = [summed EXCEPT ![gi] = Slice(l, r)]
    /\ gi' = gi + 1
    /\ UNCHANGED <<vstar, wavenumber, cut_off, li, added>>
    /\ UNCHANGED <<bandVars, normVars, callVars, extraVars>>

\* One iteration of "for i in range(lines.s.size)" (spectral_lines.py).
LineStep ==
    /\ li >= 1 /\ li <= Len(vstar)
    /\ LET left == LowerIndex(wavenumber, vstar[li] - cut_off)
           right == UpperIndex(wavenumber, vstar[li] + cut_off)
       IN added' = [added EXCEPT ![li] = Slice(left, right)]
    /\ li' = li + 1
    /\ UNCHANGED <<vstar, wavenumber, cut_off, gi, summed>>
    /\ UNCHANGED <<bandVars, normVars, callVars, extraVars>>

(***************************************************************************)
(* The same two loops in float64 arithmetic.  The centers, the grid and    *)
(* cut_off are whole tenths, each held as the double nearest to it; a sum  *)
(* or difference of two such doubles is rounded to nearest and may lie     *)
(* just above or just below the double of the decimal result.  The double  *)
(* of n tenths is kept as 3n, the double just above it as 3n + 1 and the   *)
(* double just below it as 3n - 1, which orders them as they are ordered.  *)
(***************************************************************************)
\* The sign of fl(a/10 + c/10) - (a + c)/10 and of fl(a/10 - c/10) - (a - c)/10
\* in IEEE-754 double precision, for a in 0..6 and c in 1..4.
AddRounding(a, c) ==
    IF <<a, c>> \in {<<1, 2>>, <<2, 1>>, <<2, 4>>, <<4, 2>>} THEN 1
    ELSE IF <<a, c>> \in {<<6, 3>>} THEN -1
    ELSE 0

SubRounding(a, c) ==
    IF <<a, c>> \in {<<1, 3>>, <<2, 3>>, <<4, 1>>, <<4, 3>>} THEN 1
    ELSE IF <<a, c>> \in {<<1, 4>>, <<3, 1>>, <<3, 2>>, <<3, 4>>, <<5, 4>>, <<6, 2>>, <<6, 4>>}
    THEN -1
    ELSE 0

\* The doubles of an array of tenths.
Tenths(a) == [k \in 1..Len(a) |-> 3 * a[k]]

\* "v + cut_off", "v - cut_off"
FloatAdd(a, c) == 3 * (a + c) + AddRounding(a, c)

FloatSub(a, c) == 3 * (a - c) + SubRounding(a, c)

\* One iteration of "for i, v in enumerate(wavenumber)" (lines.py, hitran.py).
FloatGridPointStep ==
    /\ gi >= 1 /\ gi <= Len(wavenumber)
    /\ LET v == wavenumber[gi]
           l == searchsorted(Tenths(vstar_sorted), FloatSub(v, cut_off), "left")
           r == searchsorted(Tenths(vstar_sorted), FloatAdd(v, cut_off), "right")
       IN summed' = [summed EXCEPT ![gi] = Slice(l, r)]
    /\ gi' = gi + 1
    /\ UNCHANGED <<vstar, wavenumber, cut_off, li, added>>
    /\ UNCHANGED <<bandVars, normVars, callVars, extraVars>>

\* One iteration of "for i in range(lines.s.size)" (spectral_lines.py).
FloatLineStep ==
    /\ li >= 1 /\ li <= Len(vstar)
    /\ LET left == searchsorted(Tenths(wavenumber), FloatSub(vstar[li], cut_off), "left")
           right == searchsorted(Tenths(wavenumber), FloatAdd(vstar[li], cut_off), "right")
       IN added' = [added EXCEPT ![li] = Slice(left, right)]
    /\ li' = li + 1
    /\ UNCHANGED <<vstar, wavenumber, cut_off, gi, summed>>
    /\ UNCHANGED <<bandVars, normVars, callVars, extraVars>>

WindowInit ==
    /\ \E n \in 1..MaxLines : vstar \in [1..n -> 0..MaxShifted]
    /\ \E m \in 1..MaxGrid :
          /\ wavenumber \in [1..m -> 0..MaxShifted]
          /\ IsAscending(wavenumber)
    /\ cut_off \in 1..MaxCutOff
    /\ gi = 1
    /\ summed = [k \in 1..Len(wavenumber) |-> {}]
    /\ li = 1
    /\ added = [k \in 1..Len(vstar) |-> {}]

\* The window when no summation is modelled.
WindowIdle ==
    /\ vstar = <<>>
    /\ wavenumber = <<>>
    /\ cut_off = 0
    /\ gi = 0
    /\ summed = <<>>
    /\ li = 0
    /\ added = <<>>

(***************************************************************************)
(* absorption_coefficient on a constructed line set.  Two calls may be in  *)
(* progress at once; a step of a call is one statement of its code.  The   *)
(* real-valued results are named by the values they are computed from.     *)
(***************************************************************************)
Calls == {1, 2}

Unbound == [bound |-> FALSE]

Bound(x) == [bound |-> TRUE, val |-> x]

\* The arguments of a call.  The partial pressure only enters the pressure-broadened
\* half-widths, which the temperature and the pressure already tell apart.
CallArgs == [temperature : 1..MaxCallTemp, pressure : 1..MaxPressure,
             partial_pressure : {0}]

NoArgs == [temperature |-> 0, pressure |-> 0, partial_pressure |-> 0]

IdleCall == [pc |-> "idle", args |-> NoArgs, i |-> 0, s_sorted |-> <<>>,
             vstar_sorted |-> <<>>, gamma_sorted |-> Unbound, alpha |-> Unbound,
             k |-> <<>>, error |-> "none", alone |-> <<>>]

\* LineProfile.__init__ (gamma, alpha), Voigt.__init__ (doppler_halfwidth,
\* pressure_halfwidth): every attribute is None.
NewProfile == [gamma |-> Unbound, alpha |-> Unbound,
               doppler_halfwidth |-> Unbound, pressure_halfwidth |-> Unbound]

InProgress(c) == calls[c].pc \notin {"idle", "done", "error"}

Ended(c) == calls[c].pc \in {"done", "error"}

\* self.s[:]*(1./self.temperature_correct_line_strength(self.q, temperature, ...))
correct_line_strengths_at_reference(ls, t) ==
    [k \in 1..Len(ls.s) |->
        [s |-> ls.s[k],
         over |-> temperature_correct_line_strength(tips_reference_temperature, ls.iso[k],
                                                    ls.line[k], ls.v[k])]]
correct_line_strengths(ls, t) ==
    [k \in 1..Len(ls.s) |->
        [s |-> ls.s[k],
         over |-> temperature_correct_line_strength(t, ls.iso[k], ls.line[k], ls.v[k])]]

\* self.v[:] + self.delta[:]*pressure
pressure_shift_transition_wavenumbers(ls, pressure) ==
    [k \in 1..Len(ls.v) |-> ls.v[k] + ls.delta[k] * pressure]

\* power(296./temperature, n)*(gamma_air*(pressure - partial_pressure)
\*                             + gamma_self*partial_pressure), per line
pressure_broadened_halfwidths(ls, pressure, partial_pressure, t) ==
    [k \in 1..Len(ls.line) |->
        [line |-> ls.line[k], pressure |-> pressure,
         partial_pressure |-> partial_pressure, temperature |-> t]]

\* sqrt(log(2))*transition_wavenumber*sqrt(2*kb*temperature/(m*c*c)), per line
doppler_broadened_halfwidth(t, mass, transition_wavenumber) ==
    [k \in 1..Len(mass) |->
        [temperature |-> t, mass |-> mass[k], v |-> transition_wavenumber[k]]]

\* vstar.argsort(): the positions of a in ascending order of value.
RECURSIVE InsertIndex(_, _, _)
InsertIndex(inds, x, a) ==
    IF inds = <<>> THEN <<x>>
    ELSE IF a[inds[Len(inds)]] <= a[x] THEN Append(inds, x)
    ELSE Append(InsertIndex(SubSeq(inds, 1, Len(inds) - 1), x, a), inds[Len(inds)])

RECURSIVE ArgSortUpTo(_, _)
ArgSortUpTo(a, n) == IF n = 0 THEN <<>> ELSE InsertIndex(ArgSortUpTo(a, n - 1), n, a)

argsort_unsorted(a) == [k \in 1..Len(a) |-> k]
argsort(a) == ArgSortUpTo(a, Len(a))

\* a[inds]
Take(a, inds) == [k \in 1..Len(inds) |-> a[inds[k]]]

\* a[l:r]
SliceOf(a, l, r) == SubSeq(a, l + 1, r)

\* The length of the result of an elementwise operation on arrays of the given
\* lengths under numpy's broadcasting rule; -1 when the shapes do not broadcast.
BroadcastLen(lens) ==
    LET N == lens \ {1}
    IN IF N = {} THEN 1
       ELSE IF Cardinality(N) = 1 THEN CHOOSE n \in N : TRUE
       ELSE -1

Element(a, k) == IF Len(a) = 1 THEN a[1] ELSE a[k]

\* The terms of sum(s*line_profile.profile(v, v_center)) for a Voigt object whose
\* attributes are gamma and alpha (line_profiles.py); <<"ValueError">> when the
\* operands do not broadcast.
SumOfProfiles(ss, v, v_center, gamma, alpha) ==
    LET n == BroadcastLen({Len(ss), Len(v_center), Len(gamma), Len(alpha)})
    IN IF n = -1 THEN Unbound
       ELSE Bound([j \in 1..n |->
                     [s |-> Element(ss, j), v |-> v, v_center |-> Element(v_center, j),
                      gamma |-> Element(gamma, j), alpha |-> Element(alpha, j)]])

\* shallow_copy(lines.line_profile): a new object, the one of call c.
shallow_copy_none(c) == 0
shallow_copy(c) == c

\* The call starts; its arguments are bound.
StartCall(c) ==
    /\ calls[c].pc = "idle"
    /\ c = 2 => calls[1].pc # "idle"
    /\ \E a \in CallArgs : calls' = [calls EXCEPT ![c].pc = "start", ![c].args = a]
    /\ overlap' = (overlap \/ \E d \in Calls \ {c} : InProgress(d))
    /\ UNCHANGED <<profiles, constructed>>
    /\ UNCHANGED <<bandVars, normVars, windowVars, extraVars>>

\* The call starts when no other call is in progress.
StartCallAfter(c) ==
    /\ \A d \in Calls : ~InProgress(d)
    /\ StartCall(c)

\* lines.py, hitran.py: from "s = self.correct_line_strengths(temperature)" to
\* "k = zeros(wavenumber.size)".
Prepare(c) ==
    /\ impl \in {"hitran", "lines"}
    /\ calls[c].pc = "start"
    /\ LET a == calls[c].args
           s == correct_line_strengths(lines, a.temperature)
           vs == pressure_shift_transition_wavenumbers(lines, a.pressure)
           inds == argsort(vs)
           vs_sorted == Take(vs, inds)
           gamma == pressure_broadened_halfwidths(lines, a.pressure, a.partial_pressure,
                                                  a.temperature)
           mass_sorted == Take(lines.mass, inds)
       IN calls' = [calls EXCEPT
            ![c].pc = IF Len(wavenumber) = 0 THEN "done" ELSE "gamma",
            ![c].i = 1,
            ![c].s_sorted = Take(s, inds),
            ![c].vstar_sorted = vs_sorted,
            ![c].gamma_sorted = IF line_profile \in {"Lorentz", "Voigt"}
                                THEN Bound(Take(gamma, inds)) ELSE Unbound,
            ![c].alpha = IF line_profile \in {"Doppler", "Voigt"}
                         THEN Bound(doppler_broadened_halfwidth(a.temperature, mass_sorted,
                                                                vs_sorted))
                         ELSE Unbound,
            ![c].k = [g \in 1..Len(wavenumber) |-> <<>>],
            ![c].alone = [g \in 1..Len(wavenumber) |-> <<>>]]
    /\ UNCHANGED <<profiles, overlap, constructed>>
    /\ UNCHANGED <<bandVars, normVars, windowVars, extraVars>>

\* l and r of the iteration the call is at.
LeftOf(c) == LowerIndex(calls[c].vstar_sorted, wavenumber[calls[c].i] - cut_off)

RightOf(c) == UpperIndex(calls[c].vstar_sorted, wavenumber[calls[c].i] + cut_off)

\* "line_profile.gamma = gamma_sorted[l:r]"
AssignGamma(c) ==
    /\ calls[c].pc = "gamma"
    /\ IF calls[c].gamma_sorted.bound
       THEN /\ profiles' = [profiles EXCEPT ![0].gamma =
                              Bound(SliceOf(calls[c].gamma_sorted.val, LeftOf(c), RightOf(c)))]
            /\ calls' = [calls EXCEPT ![c].pc = "alpha"]
       ELSE /\ calls' = [calls EXCEPT ![c].pc = "error", ![c].error = "UnboundLocalError"]
            /\ UNCHANGED profiles
    /\ UNCHANGED <<overlap, constructed>>
    /\ UNCHANGED <<bandVars, normVars, windowVars, extraVars>>

\* "line_profile.alpha = alpha[l:r]"
AssignAlpha(c) ==
    /\ calls[c].pc = "alpha"
    /\ IF calls[c].alpha.bound
       THEN /\ profiles' = [profiles EXCEPT ![0].alpha =
                              Bound(SliceOf(calls[c].alpha.val, LeftOf(c), RightOf(c)))]
            /\ calls' = [calls EXCEPT ![c].pc = "profile"]
       ELSE /\ calls' = [calls EXCEPT ![c].pc = "error", ![c].error = "UnboundLocalError"]
            /\ UNCHANGED profiles
    /\ UNCHANGED <<overlap, constructed>>
    /\ UNCHANGED <<bandVars, normVars, windowVars, extraVars>>

\* "k[i] = sum(s_sorted[l:r]*line_profile.profile(v, vstar_sorted[l:r]))" and the
\* end of the iteration.  Only a Voigt object gets here; its profile reads
\* self.gamma and self.alpha.
Evaluate(c) ==
    /\ calls[c].pc = "profile"
    /\ LET l == LeftOf(c)
           r == RightOf(c)
           sum == SumOfProfiles(SliceOf(calls[c].s_sorted, l, r), wavenumber[calls[c].i],
                                SliceOf(calls[c].vstar_sorted, l, r),
                                profiles[0].gamma.val, profiles[0].alpha.val)
           own == SumOfProfiles(SliceOf(calls[c].s_sorted, l, r), wavenumber[calls[c].i],
                                SliceOf(calls[c].vstar_sorted, l, r),
                                SliceOf(calls[c].gamma_sorted.val, l, r),
                                SliceOf(calls[c].alpha.val, l, r))
       IN IF sum.bound
          THEN calls' = [calls EXCEPT
                 ![c].k[calls[c].i] = sum.val,
                 ![c].alone[calls[c].i] = own.val,
                 ![c].i = calls[c].i + 1,
                 ![c].pc = IF calls[c].i = Len(wavenumber) THEN "done" ELSE "gamma"]
          ELSE calls' = [calls EXCEPT ![c].pc = "error", ![c].error = "ValueError",
                                      ![c].alone[calls[c].i] = own.val]
    /\ UNCHANGED <<profiles, overlap, constructed>>
    /\ UNCHANGED <<bandVars, normVars, windowVars, extraVars>>

\* spectral_lines.py: "lines = shallow_copy(self)", "profile = shallow_copy(...)",
\* "profile.update(lines, temperature, pressure, partial_pressure)".  The profile
\* is a Voigt object without line mixing, the only kind the constructor accepts:
\* update assigns doppler_halfwidth, then calls pressure_broadened_halfwidth
\* (six parameters) with seven arguments, which raises TypeError.
Update(c) ==
    /\ impl = "spectral_lines"
    /\ line_profile = "Voigt"
    /\ calls[c].pc = "start"
    /\ LET a == calls[c].args
           profile == shallow_copy(c)
       IN profiles' = [profiles EXCEPT ![profile] =
              [profiles[0] EXCEPT !.doppler_halfwidth =
                  Bound(doppler_broadened_halfwidth(a.temperature, lines.mass, lines.v))]]
    /\ calls' = [calls EXCEPT ![c].pc = "error", ![c].error = "TypeError"]
    /\ UNCHANGED <<overlap, constructed>>
    /\ UNCHANGED <<bandVars, normVars, windowVars, extraVars>>

\* A line set as its constructor returns it, a grid, a profile object, no call yet.
AbsorbInit ==
    /\ impl \in Impls
    /\ line_profile \in Profiles
    /\ \E n \in 1..MaxRecords :
          records \in [1..n -> RawRecords(1..MaxCenter, {1}, 0..MaxDelta)]
    /\ ri = Len(records) + 1
    /\ parsed = [k \in 1..Len(records) |-> ParseAsciiRecord(impl, records[k], k)]
    /\ lines \in (IF impl = "hitran" THEN HitranSpectralLinesInit(parsed)
                  ELSE IF impl = "lines" THEN LinesInit(parsed)
                  ELSE SpectralLinesInit(parsed, line_profile))
    /\ lines.status = "ok"
    /\ constructed = lines
    /\ wavenumber = <<1>>
    /\ cut_off = 1
    /\ vstar = <<>> /\ gi = 0 /\ summed = <<>> /\ li = 0 /\ added = <<>>
    /\ calls = [c \in Calls |-> IdleCall]
    /\ profiles = [o \in {0} \cup Calls |-> NewProfile]
    /\ overlap = FALSE

\* The calls when none is modelled.
CallsIdle ==
    /\ calls = [c \in Calls |-> IdleCall]
    /\ profiles = [o \in {0} \cup Calls |-> NewProfile]
    /\ overlap = FALSE
    /\ constructed = NoLines

(***************************************************************************)
(* Ingestion of tabulated data: download_from_web keeps the tables it does *)
(* not take for duplicates, create_bands sorts them and cuts the sorted    *)
(* list into bands.                                                        *)
(*   cross_sections.py               HitranCrossSection  ("xsc")           *)
(*   collision_induced_absorption.py HitranCIA           ("cia")           *)
(* A table is its band_params (start, end, number of points), its          *)
(* temperature, its pressure (0 for HitranCIA, whose tables have none) and *)
(* the first and last entry of its wavenumber list.                        *)
(***************************************************************************)
Kinds == {"xsc", "cia"}

\* The pressures of the downloaded HitranCrossSection tables.
TablePressures == {1, 2}

\* The band_params of the downloaded tables.
BandParams == {<<0, 2, 2>>, <<0, 2, 3>>, <<1, 2, 2>>}

\* parse_records: the Table of one file.  wavenumber is linspace(w0, wn, n)
\* (cross_sections.py) or the first column of the data rows.
TableOf(bp, t, p) ==
    [band_params |-> bp, temperature |-> t, pressure |-> p,
     first |-> bp[1], last |-> bp[2]]

Downloads(k) ==
    {TableOf(bp, t, p) : bp \in BandParams, t \in 1..MaxTableTemp,
                         p \in IF k = "xsc" THEN TablePressures ELSE {0}}

Contains(list, x) == \E j \in 1..Len(list) : list[j] = x

\* "if tables and table.temperature in temperatures and table.band_params in
\* band_params and table.pressure in pressures" (HitranCIA: without the pressure)
IsDuplicateNever(k, table) == FALSE
IsDuplicate(k, table) ==
    /\ tables # <<>>
    /\ Contains(temperatures, table.temperature)
    /\ Contains(band_params, table.band_params)
    /\ k = "xsc" => Contains(pressures, table.pressure)

\* sorted(ts, key=lambda x: x.<field>): a stable sort.
RECURSIVE InsertByField(_, _, _)
InsertByField(sorted, x, field) ==
    IF sorted = <<>> THEN <<x>>
    ELSE IF sorted[Len(sorted)][field] <= x[field] THEN Append(sorted, x)
    ELSE Append(InsertByField(SubSeq(sorted, 1, Len(sorted) - 1), x, field),
                sorted[Len(sorted)])

RECURSIVE SortedByField(_, _)
SortedByField(ts, field) ==
    IF ts = <<>> THEN <<>>
    ELSE InsertByField(SortedByField(SubSeq(ts, 1, Len(ts) - 1), field), ts[Len(ts)], field)

\* The nested sorts of create_bands: by pressure (HitranCrossSection only), then
\* temperature, then wavenumber[-1], then wavenumber[0].
SortedTables(k, ts) ==
    LET byPressure == IF k = "xsc" THEN SortedByField(ts, "pressure") ELSE ts
    IN SortedByField(SortedByField(SortedByField(byPressure, "temperature"), "last"),
                     "first")

\* cross_section_bands: the loop over sorted_tables[1:], with the bands closed so
\* far and the band being filled.
RECURSIVE GroupTables(_, _, _, _)
GroupTables(sorted, j, done, band) ==
    IF j > Len(sorted) THEN Append(done, band)
    ELSE IF sorted[j].band_params = band[Len(band)].band_params
         THEN GroupTables(sorted, j + 1, done, Append(band, sorted[j]))
         ELSE GroupTables(sorted, j + 1, Append(done, band), <<sorted[j]>>)

cross_section_bands(sorted_tables) == GroupTables(sorted_tables, 2, <<>>, <<sorted_tables[1]>>)

\* cross_section_inquiry: "if not tables: raise ValueError(...)".
cross_section_inquiry_silent(ts) == "ok"
cross_section_inquiry(ts) == IF ts = <<>> THEN "ValueError" ELSE "ok"

\* One iteration of the loop of download_from_web over the downloaded tables.
IngestTable ==
    /\ ingest = "loop"
    /\ fi <= Len(files)
    /\ LET table == files[fi]
       IN IF IsDuplicate(kind, table)
          THEN UNCHANGED <<tables, temperatures, pressures, band_params>>
          ELSE /\ temperatures' = Append(temperatures, table.temperature)
               /\ band_params' = Append(band_params, table.band_params)
               /\ pressures' = IF kind = "xsc" THEN Append(pressures, table.pressure)
                               ELSE pressures
               /\ tables' = Append(tables, table)
    /\ fi' = fi + 1
    /\ UNCHANGED <<kind, files, self_bands, ingest>>
    /\ UNCHANGED <<bandVars, normVars, windowVars, callVars, interpVars, batchVars, strengthVars, scenarioVars, recordVars, dbVars, asciiVars>>

\* "self.bands = self.create_bands(tables, ...)": cross_section_inquiry raises
\* ValueError when tables is empty; otherwise the tables are sorted and grouped.
CreateBands ==
    /\ ingest = "loop"
    /\ fi > Len(files)
    /\ IF cross_section_inquiry(tables) # "ok"
       THEN /\ ingest' = cross_section_inquiry(tables)
            /\ UNCHANGED self_bands
       ELSE IF SortedTables(kind, tables) = <<>>
       THEN /\ ingest' = "IndexError"      \* "band = [sorted_tables[0]]"
            /\ UNCHANGED self_bands
       ELSE /\ self_bands' = cross_section_bands(SortedTables(kind, tables))
            /\ ingest' = "done"
    /\ UNCHANGED <<kind, files, fi, tables, temperatures, pressures, band_params>>
    /\ UNCHANGED <<bandVars, normVars, windowVars, callVars, interpVars, batchVars, strengthVars, scenarioVars, recordVars, dbVars, asciiVars>>

IngestInit ==
    /\ kind \in Kinds
    /\ \E n \in 0..MaxFiles : files \in [1..n -> Downloads(kind)]
    /\ fi = 1
    /\ tables = <<>>
    /\ temperatures = <<>>
    /\ pressures = <<>>
    /\ band_params = <<>>
    /\ self_bands = <<>>
    /\ ingest = "loop"

\* The ingestion when none is modelled.
IngestIdle ==
    /\ kind = "none"
    /\ files = <<>>
    /\ fi = 0
    /\ tables = <<>>
    /\ temperatures = <<>>
    /\ pressures = <<>>
    /\ band_params = <<>>
    /\ self_bands = <<>>
    /\ ingest = "none"

(***************************************************************************)
(* Interpolation of the tables of a band and the clamp of the result, in   *)
(* absorption_coefficient of HitranCrossSection and HitranCIA.  What an    *)
(* interpolator returns is not computed: it is any value of Interpolants,  *)
(* negative ones included.  A number is a mantissa and a power of ten.     *)
(***************************************************************************)
GridPoints == {1, 2}        \* the indices of the spectral grid
Interpolants == {-1, 0, 1}  \* what an interpolator may return at a grid point

Number(m) == [mantissa |-> m, exponent |-> 0]
Times(a, b) == [mantissa |-> a.mantissa * b.mantissa, exponent |-> a.exponent + b.exponent]

\* utils.py: cm_to_m = 0.01
cm_to_m == [mantissa |-> 1, exponent |-> -2]

\* The bands create_bands can make: tables of one band_params, in the order of
\* the sorts (temperature, then pressure).
IsBandOrder(ts) ==
    \A j \in 1..(Len(ts) - 1) :
        \/ ts[j].temperature < ts[j + 1].temperature
        \/ ts[j].temperature = ts[j + 1].temperature /\ ts[j].pressure <= ts[j + 1].pressure

BandsOf(k) ==
    {ts \in UNION {[1..n -> {TableOf(<<0, 2, 2>>, t, p) :
                                t \in 1..MaxTableTemp,
                                p \in IF k = "xsc" THEN TablePressures ELSE {0}}]
                   : n \in 1..MaxBandTables} : IsBandOrder(ts)}

SetOf(ts, field) == {ts[j][field] : j \in 1..Len(ts)}

\* The branch of absorption_coefficient taken for a band.
InterpolationMoreThan4(k, band) ==
    IF Len(band) = 1 THEN "interp1d"
    ELSE IF k = "cia" THEN "interp2d over temperature"
    ELSE IF Cardinality(SetOf(band, "temperature")) = 1 THEN "interp2d over pressure"
    ELSE IF Cardinality(SetOf(band, "pressure")) = 1 THEN "interp2d over temperature"
    ELSE IF Len(band) > 4 THEN "LinearNDInterpolator, interp1d"
    ELSE "NearestNDInterpolator, interp1d"
Interpolation(k, band) ==
    IF Len(band) = 1 THEN "interp1d"
    ELSE IF k = "cia" THEN "interp2d over temperature"
    ELSE IF Cardinality(SetOf(band, "temperature")) = 1 THEN "interp2d over pressure"
    ELSE IF Cardinality(SetOf(band, "pressure")) = 1 THEN "interp2d over temperature"
    ELSE IF Len(band) >= 4 THEN "LinearNDInterpolator, interp1d"
    ELSE "NearestNDInterpolator, interp1d"

\* "cross_section[argwhere(cross_section < 0.)] = 0."
RemoveNegativeNone(a) == a
RemoveNegative(a) == [g \in DOMAIN a |-> IF a[g].mantissa < 0 THEN Number(0) ELSE a[g]]

\* "return cross_section*cm_to_m*cm_to_m" (HitranCIA: five factors cm_to_m)
RECURSIVE TimesCmToM(_, _)
TimesCmToM(x, n) == IF n = 0 THEN x ELSE TimesCmToM(Times(x, cm_to_m), n - 1)

ToSI(k, a) == [g \in DOMAIN a |-> TimesCmToM(a[g], IF k = "xsc" THEN 2 ELSE 5)]

\* One pass of the loop over self.bands for a band that is not skipped: the
\* branch is taken from the band, the interpolant is written to cross_section[left:right].
InterpolateBand ==
    /\ this_kind \in Kinds
    /\ ~returned.bound
    /\ \E left \in GridPoints : \E right \in GridPoints \cup {0} :
       \E z \in [{g \in GridPoints : left <= g /\ g <= right} -> Interpolants] :
          interpolated' = [g \in GridPoints |->
                             IF g \in DOMAIN z THEN Number(z[g]) ELSE interpolated[g]]
    /\ method' = Interpolation(this_kind, cur_band)
    /\ UNCHANGED <<this_kind, cur_band, returned>>
    /\ UNCHANGED <<bandVars, normVars, windowVars, callVars, ingestVars, batchVars, strengthVars, scenarioVars, recordVars, dbVars, asciiVars>>

\* After the loop: the clamp and the conversion to SI units.
ReturnCrossSection ==
    /\ this_kind \in Kinds
    /\ ~returned.bound
    /\ returned' = Bound(ToSI(this_kind, RemoveNegative(interpolated)))
    /\ UNCHANGED <<this_kind, cur_band, method, interpolated>>
    /\ UNCHANGED <<bandVars, normVars, windowVars, callVars, ingestVars, batchVars, strengthVars, scenarioVars, recordVars, dbVars, asciiVars>>

\* absorption_coefficient starts with cross_section = zeros(grid.size).
InterpInit ==
    /\ this_kind \in Kinds
    /\ cur_band \in BandsOf(this_kind)
    /\ method = "none"
    /\ interpolated = [g \in GridPoints |-> Number(0)]
    /\ returned = Unbound

InterpIdle ==
    /\ this_kind = "none"
    /\ cur_band = <<>>
    /\ method = "none"
    /\ interpolated = <<>>
    /\ returned = Unbound

(***************************************************************************)
(* Ingestion of a batch of line records.                                   *)
(*   "database"  database.py  Hitran.parse_records                         *)
(*   "lines"     lines.py     the loop of SpectralLines.__init__           *)
(*   "web"       hitran.py    HitranSpectralLines.download_from_web        *)
(*   "ascii"     hitran.py    HitranSpectralLines.read_from_ascii          *)
(* A record is the texts of three fields: the molecule id (an int), n_air  *)
(* (a float) and n_self (a float; in hitran.py and lines.py, which have no *)
(* n_self, any further float column).  "#" is the missing-value marker,    *)
(* "abc" a text that is neither a number nor the marker.                   *)
(***************************************************************************)
Paths == {"database", "lines", "web", "ascii"}

FieldTexts == {"1", "2", "#", "abc"}

BatchRecords == [id : FieldTexts, n_air : FieldTexts, n_self : FieldTexts]

\* The parameters in the order they are converted, with their types.
Parameters == <<[shortname |-> "id", dtype |-> "int"],
                [shortname |-> "n_air", dtype |-> "float"],
                [shortname |-> "n_self", dtype |-> "float"]>>

\* "id = self.molecule_ids[molecule]": the id of the requested molecule.
molecule_id == 1

\* Python's None in a column of numbers.
None == 0

\* int(text) and float(text): the value, or the message of the ValueError.
Convert(dtype, text) ==
    IF text = "1" THEN [ok |-> TRUE, value |-> 1, message |-> "", text |-> text]
    ELSE IF text = "2" THEN [ok |-> TRUE, value |-> 2, message |-> "", text |-> text]
    ELSE [ok |-> FALSE, value |-> None,
          message |-> IF dtype = "int" THEN "invalid literal for int() with base 10"
                      ELSE "could not convert string to float",
          text |-> text]

\* '"#" in str(e)': the message quotes the text that failed.
HasMarker(e) == e.text = "#"

\* database.py, the loop over zip(self.parameters, record) from field f on:
\* data is the list built so far; the result is the list, or the ValueError raised.
RECURSIVE ConvertFields(_, _, _)
ConvertFields(rec, f, data) ==
    IF f > Len(Parameters) THEN [raised |-> FALSE, data |-> data]
    ELSE LET x == Parameters[f]
             c == Convert(x.dtype, rec[x.shortname])
         IN IF c.ok THEN ConvertFields(rec, f + 1, Append(data, c.value))
            ELSE IF HasMarker(c)
                 THEN IF x.shortname = "n_self"
                      THEN ConvertFields(rec, f + 1, Append(data, None))
                      ELSE ConvertFields(rec, f + 1, data)     \* warning, continue
                 ELSE [raised |-> TRUE, data |-> data]

\* "if ... self.n_self[-1] is None: self.n_self[-1] = self.n_air[-1]"
DefaultNSelfKeepsNone(n_self, n_air) == n_self
DefaultNSelf(n_self, n_air) == IF n_self = None THEN n_air ELSE n_self

\* hitran.py and lines.py convert the fields in order; the first failure leaves the parse.
RECURSIVE FirstFailure(_, _)
FirstFailure(rec, f) ==
    IF f > Len(Parameters) THEN [ok |-> TRUE, message |-> "", text |-> ""]
    ELSE LET c == Convert(Parameters[f].dtype, rec[Parameters[f].shortname])
         IN IF c.ok THEN FirstFailure(rec, f + 1)
            ELSE [ok |-> FALSE, message |-> c.message, text |-> c.text]

Entry(rec, j) ==
    [id |-> Convert("int", rec.id).value, n_air |-> Convert("float", rec.n_air).value,
     n_self |-> Convert("float", rec.n_self).value, rec |-> j]

\* hitran.py parse_ascii_record: the id is converted and compared before any other
\* column is converted.  The result is "ok" or the exception raised.
HitranParse(rec) ==
    LET id == Convert("int", rec.id)
    IN IF ~id.ok THEN "ValueError"
       ELSE IF id.value # molecule_id THEN "RecordError"
       ELSE IF FirstFailure(rec, 2).ok THEN "ok" ELSE "ValueError"

\* read_from_ascii has "except RecordError: continue"; download_from_web has no handler.
CatchesRecordErrorNowhere(p) == FALSE
CatchesRecordError(p) == p = "ascii"

\* "if len(data) < len(self.parameters): continue"
TooShortNever(data) == FALSE
TooShort(data) == Len(data) < Len(Parameters)

EmptyColumns == [id |-> <<>>, n_air |-> <<>>, n_self |-> <<>>]

\* "for x, datum in zip(self.parameters, data): self.__dict__[x.shortname].append(datum)"
\* for the data of record j: zip stops at the shorter of the two.
AppendData(cols, data, j) ==
    [s \in DOMAIN cols |->
        LET f == CHOOSE g \in 1..Len(Parameters) : Parameters[g].shortname = s
        IN IF f <= Len(data) THEN Append(cols[s], [value |-> data[f], rec |-> j])
           ELSE cols[s]]

\* "if ... self.n_self[-1] is None: self.n_self[-1] = self.n_air[-1]" on the lists.
DefaultLastNSelf(cols) ==
    IF cols.n_self = <<>> \/ cols.n_air = <<>> THEN cols
    ELSE IF cols.n_self[Len(cols.n_self)].value # None THEN cols
    ELSE [cols EXCEPT !.n_self[Len(cols.n_self)] =
             [cols.n_air[Len(cols.n_air)] EXCEPT
                 !.value = DefaultNSelf(None, cols.n_air[Len(cols.n_air)].value)]]

\* The body of the loop over the records, for one record.
IngestRecord ==
    /\ outcome = "loop"
    /\ bk <= Len(batch)
    /\ LET rec == batch[bk]
       IN CASE path = "database" ->
                 LET r == ConvertFields(rec, 1, <<>>)
                 IN IF r.raised
                    THEN outcome' = "ValueError" /\ UNCHANGED <<kept, bk>>
                    ELSE /\ outcome' = outcome
                         /\ bk' = bk + 1
                         /\ kept' = IF Len(r.data) < Len(Parameters) THEN kept
                                    ELSE Append(kept, [id |-> r.data[1], n_air |-> r.data[2],
                                                       n_self |-> DefaultNSelf(r.data[3], r.data[2]),
                                                       rec |-> bk])
            [] path = "lines" ->
                 LET e == FirstFailure(rec, 1)
                 IN IF e.ok
                    THEN outcome' = outcome /\ bk' = bk + 1 /\ kept' = Append(kept, Entry(rec, bk))
                    ELSE IF e.message = "could not convert string to float"
                    THEN outcome' = outcome /\ bk' = bk + 1 /\ kept' = kept
                    ELSE outcome' = "ValueError" /\ UNCHANGED <<kept, bk>>
            [] path \in {"web", "ascii"} ->
                 LET r == HitranParse(rec)
                 IN IF r = "ok"
                    THEN outcome' = outcome /\ bk' = bk + 1 /\ kept' = Append(kept, Entry(rec, bk))
                    ELSE IF r = "RecordError" /\ CatchesRecordError(path)
                    THEN outcome' = outcome /\ bk' = bk + 1 /\ kept' = kept
                    ELSE outcome' = r /\ UNCHANGED <<kept, bk>>
    /\ columns' =
          IF path = "database"
          THEN LET r == ConvertFields(batch[bk], 1, <<>>)
               IN IF r.raised \/ TooShort(r.data) THEN columns
                  ELSE DefaultLastNSelf(AppendData(columns, r.data, bk))
          ELSE IF Len(kept') > Len(kept)
               THEN AppendData(columns, <<Entry(batch[bk], bk).id, Entry(batch[bk], bk).n_air,
                                          Entry(batch[bk], bk).n_self>>, bk)
               ELSE columns
    /\ UNCHANGED <<path, batch>>
    /\ UNCHANGED <<bandVars, normVars, windowVars, callVars, ingestVars, interpVars, strengthVars, scenarioVars, recordVars, dbVars, asciiVars>>

\* After the last record: lines.py raises EmptySpectraError, a name it does not
\* define, when nothing was kept; the other three return what they kept.
EndOfBatch ==
    /\ outcome = "loop"
    /\ bk > Len(batch)
    /\ outcome' = IF path = "lines" /\ kept = <<>> THEN "NameError" ELSE "returned"
    /\ UNCHANGED <<path, batch, bk, kept, columns>>
    /\ UNCHANGED <<bandVars, normVars, windowVars, callVars, ingestVars, interpVars, strengthVars, scenarioVars, recordVars, dbVars, asciiVars>>

BatchInit ==
    /\ path \in Paths
    /\ \E n \in 0..MaxBatch : batch \in [1..n -> BatchRecords]
    /\ bk = 1
    /\ kept = <<>>
    /\ outcome = "loop"
    /\ columns = EmptyColumns

BatchIdle ==
    /\ path = "none"
    /\ batch = <<>>
    /\ bk = 0
    /\ kept = <<>>
    /\ outcome = "none"
    /\ columns = EmptyColumns

(***************************************************************************)
(* The temperature correction of the strengths, in exact arithmetic.  A    *)
(* strength is a product of powers of atoms: the raw strength of a line    *)
(* and the values of temperature_correct_line_strength.  num holds the     *)
(* atoms of the numerator, den those of the denominator, and a product     *)
(* cancels what both have.  Rounding of floating point is not modelled.    *)
(***************************************************************************)
NoFactor == temperature_correct_line_strength(0, 0, 0, 0)

RawAtom(line) == [num |-> SetToBag({[raw |-> line, f |-> NoFactor]}), den |-> EmptyBag]

FactorAtom(f) == [num |-> SetToBag({[raw |-> 0, f |-> f]}), den |-> EmptyBag]

\* x*y
Mul(x, y) ==
    LET n == x.num (+) y.num
        d == x.den (+) y.den
    IN [num |-> n (-) d, den |-> d (-) n]

\* 1./x
Reciprocal(x) == [num |-> x.den, den |-> x.num]

\* "self.s[:] *= f(q, TIPS_REFERENCE_TEMPERATURE, iso, en, v)": the value of a
\* stored strength.
StoredValue(s) == Mul(RawAtom(s.raw), FactorAtom(s.times))

\* "self.s[:]*(1./f(q, temperature, iso, en, v))": the value of a corrected strength.
CorrectedValue(c) == Mul(StoredValue(c.s), Reciprocal(FactorAtom(c.over)))

\* The temperatures correct_line_strengths is called with.
CorrectTemperatures == (1..MaxCallTemp) \cup {tips_reference_temperature}

\* A call of correct_line_strengths on the constructed line set.
CorrectLineStrengths ==
    /\ lines.status = "ok"
    /\ \E t \in CorrectTemperatures :
          corrected' = Bound([temperature |-> t, s |-> correct_line_strengths(lines, t)])
    /\ UNCHANGED <<bandVars, normVars, windowVars, callVars, ingestVars, interpVars, batchVars, scenarioVars, recordVars, dbVars, asciiVars>>

StrengthIdle == corrected = Unbound

(***************************************************************************)
(* One line under the Lorentz profile on a grid of three points, the       *)
(* middle one at the line center.  Wavenumbers and half-widths are exact   *)
(* fractions; a profile value is a fraction over pi.                       *)
(***************************************************************************)
RECURSIVE GCD(_, _)
GCD(a, b) == IF b = 0 THEN a ELSE GCD(b, a % b)

\* The fraction n/d, d > 0, in lowest terms.
Frac(n, d) == LET g == GCD(Abs(n), d) IN [n |-> n \div g, d |-> d \div g]

FracAdd(x, y) == Frac(x.n * y.d + y.n * x.d, x.d * y.d)
FracSub(x, y) == Frac(x.n * y.d - y.n * x.d, x.d * y.d)
FracMul(x, y) == Frac(x.n * y.n, x.d * y.d)
FracDiv(x, y) == Frac(x.n * y.d, x.d * y.n)      \* y > 0

\* lorentz_profile(dv, halfwidth) = halfwidth/(pi*(halfwidth*halfwidth + dv*dv)),
\* as the fraction that is divided by pi.
lorentz_profile(dv, halfwidth) ==
    FracDiv(halfwidth, FracAdd(FracMul(halfwidth, halfwidth), FracMul(dv, dv)))

\* The line: center 1000, zero pressure shift; the grid around it.
Scenarios ==
    [impl : Impls, v : {Frac(1000, 1)}, s : {Frac(n, 1) : n \in 1..MaxStrength},
     gamma : {Frac(n, 10) : n \in 1..MaxGamma},
     spacing : {Frac(n, 10) : n \in 0..MaxOffset}]

GridOf(sc) == <<FracSub(sc.v, sc.spacing), sc.v, FracAdd(sc.v, sc.spacing)>>

\* The line set is built and absorption_coefficient is called with a Lorentz
\* object.  lines.py and hitran.py bind alpha only for Doppler and Voigt and read
\* it in the first pass of the loop; the constructor of spectral_lines.py reads
\* line_profile.line_mixing, which a Lorentz object does not have.
CallWithLorentz ==
    /\ scenario.impl \in Impls
    /\ ~call_result.bound
    /\ call_result' = Bound(IF scenario.impl = "spectral_lines"
                            THEN [status |-> "AttributeError", k |-> <<>>]
                            ELSE [status |-> "UnboundLocalError", k |-> <<>>])
    /\ UNCHANGED <<scenario, profile_values>>
    /\ UNCHANGED <<bandVars, normVars, windowVars, callVars, ingestVars, interpVars, batchVars, strengthVars, recordVars, dbVars, asciiVars>>

\* The term the sum holds for the line at the next grid point:
\* s*lorentz_profile(wavenumber - v, halfwidth).
EvaluateLorentz ==
    /\ scenario.impl \in Impls
    /\ Len(profile_values) < 3
    /\ LET w == GridOf(scenario)[Len(profile_values) + 1]
       IN profile_values' =
              Append(profile_values,
                     FracMul(scenario.s, lorentz_profile(FracSub(w, scenario.v), scenario.gamma)))
    /\ UNCHANGED <<scenario, call_result>>
    /\ UNCHANGED <<bandVars, normVars, windowVars, callVars, ingestVars, interpVars, batchVars, strengthVars, recordVars, dbVars, asciiVars>>

ScenarioInit ==
    /\ scenario \in Scenarios
    /\ call_result = Unbound
    /\ profile_values = <<>>

ScenarioIdle ==
    /\ scenario = [impl |-> "none"]
    /\ call_result = Unbound
    /\ profile_values = <<>>

(***************************************************************************)
(* ascii_table_records (pyrad/utils/database_utilities.py): the text is    *)
(* read in blocks of block_size characters and cut into lines.  A string   *)
(* is a sequence of characters.                                            *)
(***************************************************************************)
Newline == "\n"

Characters == {"a", "b", Newline}

\* str.split("\n")
RECURSIVE Split(_)
Split(s) ==
    IF s = <<>> THEN << <<>> >>
    ELSE LET front == Split(SubSeq(s, 1, Len(s) - 1))
         IN IF s[Len(s)] = Newline THEN Append(front, <<>>)
            ELSE [front EXCEPT ![Len(front)] = Append(@, s[Len(s)])]

\* response.read(block_size): the next block_size characters, fewer at the end.
Read(txt, pos, size) ==
    SubSeq(txt, pos + 1, IF pos + size <= Len(txt) THEN pos + size ELSE Len(txt))

\* "if lines[-1] == "": del lines[-1]"
DropEmptyLast(ls) == IF ls[Len(ls)] = <<>> THEN SubSeq(ls, 1, Len(ls) - 1) ELSE ls

\* "for line in lines[:-1]: record += line; yield record; record = """: what the
\* loop yields, given the record carried into it.
YieldedInLoop(carried, ls) ==
    [j \in 1..(Len(ls) - 1) |-> IF j = 1 THEN carried \o ls[j] ELSE ls[j]]

\* One pass of "while True": a block is read, its complete lines are yielded, and
\* the last piece is yielded or carried over.
ReadBlock ==
    /\ generator = "running"
    /\ LET block == Read(response, position, block_size)
           ls == DropEmptyLast(Split(block))
           inLoop == IF ls = <<>> THEN <<>> ELSE YieldedInLoop(record, ls)
           after == IF Len(ls) >= 2 THEN <<>> ELSE record
       IN /\ position' = position + Len(block)
          /\ IF Len(block) # block_size
             THEN IF ls = <<>>
                  THEN /\ generator' = "IndexError"     \* lines[-1] of an empty list
                       /\ yielded' = yielded \o inLoop
                       /\ record' = after
                  ELSE /\ yielded' = (yielded \o inLoop) \o << after \o ls[Len(ls)] >>
                       /\ generator' = "exhausted"
                       /\ record' = after
             ELSE IF block[Len(block)] = Newline
             THEN /\ yielded' = (yielded \o inLoop) \o << ls[Len(ls)] >>
                  /\ record' = <<>>
                  /\ generator' = generator
             ELSE /\ yielded' = yielded \o inLoop
                  /\ record' = ls[Len(ls)]
                  /\ generator' = generator
    /\ UNCHANGED <<response, block_size>>
    /\ UNCHANGED <<bandVars, normVars, windowVars, callVars, ingestVars, interpVars, batchVars, strengthVars, scenarioVars, dbVars, asciiVars>>

RecordsInit ==
    /\ \E n \in 0..MaxText : response \in [1..n -> Characters]
    /\ block_size \in 1..MaxBlock
    /\ position = 0
    /\ record = <<>>
    /\ yielded = <<>>
    /\ generator = "running"

RecordsIdle ==
    /\ response = <<>>
    /\ block_size = 0
    /\ position = 0
    /\ record = <<>>
    /\ yielded = <<>>
    /\ generator = "none"

(***************************************************************************)
(* A HitranCrossSection is downloaded, written to a database with          *)
(* create_database and loaded back with load_from_database.                *)
(* A pressure is p*torr_to_Pa^k for a header pressure of p Torr and k      *)
(* conversions.  It is kept as the integer k*MaxTorr + p, and 0 for p = 0: *)
(* these integers are ordered and distinct as the real values are, since   *)
(* torr_to_Pa = 133.332 is greater than MaxTorr.                           *)
(***************************************************************************)
\* pressure*torr_to_Pa
TimesTorrToPa(pressure) == IF pressure = 0 THEN 0 ELSE pressure + MaxTorr

\* The header pressure in Torr of a pressure.
TorrOf(pressure) == IF pressure = 0 THEN 0 ELSE ((pressure - 1) % MaxTorr) + 1

\* numpy.linspace(w0, wn, n, endpoint=True), n >= 2
linspace(w0, wn, n) == [j \in 1..n |-> w0 + ((j - 1) * (wn - w0)) \div (n - 1)]

\* Table.__init__(temperature, band_params, pressure): "self.pressure =
\* pressure*torr_to_Pa"; then the wavenumbers are assigned or inserted.
Table(t, bp, pressure, wavenumbers) ==
    [band_params |-> bp, temperature |-> t, pressure |-> TimesTorrToPa(pressure),
     first |-> wavenumbers[1], last |-> wavenumbers[Len(wavenumbers)]]

\* HitranCrossSection.parse_records for a file whose header gives band_params,
\* temperature and the pressure in Torr: "Table(temperature, band_params,
\* pressure*torr_to_Pa)", "table.wavenumber = linspace(w0, wn, int(n))".
parse_records(bp, t, torr) ==
    Table(t, bp, TimesTorrToPa(torr), linspace(bp[1], bp[2], bp[3]))

ParsedTables ==
    {parse_records(bp, t, p) : bp \in BandParams, t \in 1..MaxTableTemp, p \in 0..MaxTorr}

\* The tables of all bands, band after band.
RECURSIVE TablesOf(_)
TablesOf(bs) ==
    IF bs = <<>> THEN <<>> ELSE TablesOf(SubSeq(bs, 1, Len(bs) - 1)) \o bs[Len(bs)]

\* The values of a field in the order of their first occurrence: what the INSERTs
\* leave in a table with a UNIQUE column.
RECURSIVE UniqueValues(_, _)
UniqueValues(ts, field) ==
    IF ts = <<>> THEN <<>>
    ELSE LET before == UniqueValues(SubSeq(ts, 1, Len(ts) - 1), field)
             x == ts[Len(ts)][field]
         IN IF \E j \in 1..Len(before) : before[j] = x THEN before ELSE Append(before, x)

\* "SELECT ..._id FROM ... WHERE ... == x", fetchone: the first row that matches.
IdOf(rows, x) == SetMin({j \in 1..Len(rows) : rows[j] = x})

\* The rows create_database inserts into the cross-section table for one table.
RowsOfTable(table, band_id, temperature_id, pressure_id) ==
    [j \in 1..table.band_params[3] |->
        [wavenumber |-> linspace(table.band_params[1], table.band_params[2],
                                 table.band_params[3])[j],
         band |-> band_id, temperature |-> temperature_id, pressure |-> pressure_id]]

RECURSIVE RowsOfTables(_, _, _)
RowsOfTables(ts, band_id, d) ==
    IF ts = <<>> THEN <<>>
    ELSE RowsOfTables(SubSeq(ts, 1, Len(ts) - 1), band_id, d)
         \o RowsOfTable(ts[Len(ts)], band_id,
                        IdOf(d.temperatures, ts[Len(ts)].temperature),
                        IdOf(d.pressures, ts[Len(ts)].pressure))

RECURSIVE RowsOfBands(_, _)
RowsOfBands(bs, d) ==
    IF bs = <<>> THEN <<>>
    ELSE RowsOfBands(SubSeq(bs, 1, Len(bs) - 1), d)
         \o RowsOfTables(bs[Len(bs)], IdOf(d.bands, bs[Len(bs)][1].band_params), d)

EmptyDatabase == [bands |-> <<>>, temperatures |-> <<>>, pressures |-> <<>>, rows |-> <<>>]

\* create_database on the downloaded object.
CreateDatabase ==
    /\ ingest = "done"
    /\ db_state = "net"
    /\ LET d == [bands |-> [b \in 1..Len(self_bands) |-> self_bands[b][1].band_params],
                 temperatures |-> UniqueValues(TablesOf(self_bands), "temperature"),
                 pressures |-> UniqueValues(TablesOf(self_bands), "pressure"),
                 rows |-> <<>>]
       IN db' = [d EXCEPT !.rows = RowsOfBands(self_bands, d)]
    /\ db_state' = "written"
    /\ UNCHANGED db_bands
    /\ UNCHANGED <<bandVars, normVars, windowVars, callVars, ingestVars, interpVars, batchVars, strengthVars, scenarioVars, recordVars, asciiVars>>

\* load_from_database, the loop over the rows of one band: a row with the ids of
\* the row before it is inserted into the last table, any other row starts a table.
RECURSIVE TablesOfRows(_, _, _)
TablesOfRows(rows, bp, d) ==
    IF rows = <<>> THEN <<>>
    ELSE LET before == TablesOfRows(SubSeq(rows, 1, Len(rows) - 1), bp, d)
             row == rows[Len(rows)]
             same == /\ Len(rows) > 1
                     /\ rows[Len(rows) - 1].temperature = row.temperature
                     /\ rows[Len(rows) - 1].pressure = row.pressure
         IN IF same
            THEN [before EXCEPT ![Len(before)].last = row.wavenumber]
            ELSE Append(before, Table(d.temperatures[row.temperature], bp,
                                      d.pressures[row.pressure], <<row.wavenumber>>))

\* "SELECT ... WHERE band == band_id": the rows of a band in the order of insertion.
RECURSIVE RowsOfBand(_, _)
RowsOfBand(rows, band_id) ==
    IF rows = <<>> THEN <<>>
    ELSE LET before == RowsOfBand(SubSeq(rows, 1, Len(rows) - 1), band_id)
         IN IF rows[Len(rows)].band = band_id THEN Append(before, rows[Len(rows)])
            ELSE before

RECURSIVE LoadedTables(_, _)
LoadedTables(d, n) ==
    IF n = 0 THEN <<>>
    ELSE LoadedTables(d, n - 1) \o TablesOfRows(RowsOfBand(d.rows, n), d.bands[n], d)

\* load_from_database into a new object, with the create_bands at its end.
LoadFromDatabase ==
    /\ db_state = "written"
    /\ LET ts == LoadedTables(db, Len(db.bands))
       IN IF cross_section_inquiry(ts) # "ok"
          THEN db_state' = cross_section_inquiry(ts) /\ UNCHANGED db_bands
          ELSE /\ db_bands' = cross_section_bands(SortedTables("xsc", ts))
               /\ db_state' = "loaded"
    /\ UNCHANGED db
    /\ UNCHANGED <<bandVars, normVars, windowVars, callVars, ingestVars, interpVars, batchVars, strengthVars, scenarioVars, recordVars, asciiVars>>

\* HitranCrossSection(molecule): the download of up to MaxFiles files starts.
DatabaseInit ==
    /\ kind = "xsc"
    /\ \E n \in 0..MaxFiles : files \in [1..n -> ParsedTables]
    /\ fi = 1
    /\ tables = <<>>
    /\ temperatures = <<>>
    /\ pressures = <<>>
    /\ band_params = <<>>
    /\ self_bands = <<>>
    /\ ingest = "loop"
    /\ db = EmptyDatabase
    /\ db_bands = <<>>
    /\ db_state = "net"

DatabaseIdle ==
    /\ db = EmptyDatabase
    /\ db_bands = <<>>
    /\ db_state = "none"

(***************************************************************************)
(* hitran.py: write_to_ascii writes the isotopologue id of a line into the *)
(* one-character column at position 2 of its record; parse_ascii_record    *)
(* reads it back.  A text is a sequence of characters.  The other columns  *)
(* take no part in either conversion of the id.                            *)
(***************************************************************************)
Digits == <<"0", "1", "2", "3", "4", "5", "6", "7", "8", "9">>

Letters == <<"A", "B", "C", "D", "E", "F", "G", "H", "I", "J", "K", "L", "M",
             "N", "O", "P", "Q", "R", "S", "T", "U", "V", "W", "X", "Y", "Z">>

\* The isotopologue ids HITRAN writes in one character.
IsotopologueIds == 1..36

IsIn(chars, c) == \E k \in 1..Len(chars) : chars[k] = c

PositionIn(chars, c) == CHOOSE k \in 1..Len(chars) : chars[k] = c

\* "{:>1d}".format(datum) for datum >= 0
RECURSIVE Decimal(_)
Decimal(n) ==
    IF n < 10 THEN <<Digits[n + 1]>> ELSE Append(Decimal(n \div 10), Digits[(n % 10) + 1])

\* chr(ord("A") + n); a character that is no letter beyond "Z"
ChrFromA(n) == IF n + 1 \in 1..Len(Letters) THEN Letters[n + 1] ELSE "["

\* value[len(value)-column.width:]
LastChars(value, width) ==
    SubSeq(value, IF Len(value) > width THEN Len(value) - width + 1 ELSE 1, Len(value))

\* write_to_ascii, the isotopologue column of one line.
WriteIsotopologue(datum) ==
    LET value == IF datum > 9
                 THEN IF datum = 10 THEN <<"0">> ELSE <<ChrFromA(datum - 11)>>
                 ELSE Decimal(datum)
    IN LastChars(value, 1)

\* "ord(letter.group(1).upper()) - ord("A") + 11"
IdOfLetterFromTen(letter) == PositionIn(Letters, letter) - 1 + 10
IdOfLetter(letter) == PositionIn(Letters, letter) - 1 + 11

\* parse_ascii_record, the isotopologue column: int() of the character; a letter
\* is an id from 11 on, any other failure of int() is raised; 0 stands for 10.
ParseIsotopologue(text) ==
    LET c == text[1]
    IN IF IsIn(Digits, c)
       THEN Bound(IF PositionIn(Digits, c) - 1 = 0 THEN 10 ELSE PositionIn(Digits, c) - 1)
       ELSE IF IsIn(Letters, c) THEN Bound(IdOfLetter(c))
       ELSE Unbound

\* write_to_ascii(path, id, parameters)
WriteToAscii ==
    /\ ascii_pc = "new"
    /\ ascii_file' = [k \in 1..Len(ascii_lines) |-> WriteIsotopologue(ascii_lines[k])]
    /\ ascii_pc' = "written"
    /\ UNCHANGED <<ascii_lines, ascii_read>>
    /\ UNCHANGED <<bandVars, normVars, windowVars, callVars, ingestVars, interpVars, batchVars, strengthVars, scenarioVars, recordVars, dbVars>>

\* read_from_ascii: one pass of "for record in file", and the return after the
\* last record.
ReadRecord ==
    /\ ascii_pc = "written"
    /\ IF Len(ascii_read) = Len(ascii_file)
       THEN ascii_pc' = "read" /\ UNCHANGED ascii_read
       ELSE LET iso == ParseIsotopologue(ascii_file[Len(ascii_read) + 1])
            IN IF iso.bound
               THEN ascii_read' = Append(ascii_read, iso.val) /\ UNCHANGED ascii_pc
               ELSE ascii_pc' = "ValueError" /\ UNCHANGED ascii_read
    /\ UNCHANGED <<ascii_lines, ascii_file>>
    /\ UNCHANGED <<bandVars, normVars, windowVars, callVars, ingestVars, interpVars, batchVars, strengthVars, scenarioVars, recordVars, dbVars>>

AsciiInit ==
    /\ \E n \in 0..MaxWritten : ascii_lines \in [1..n -> IsotopologueIds]
    /\ ascii_file = <<>>
    /\ ascii_read = <<>>
    /\ ascii_pc = "new"

AsciiIdle ==
    /\ ascii_lines = <<>>
    /\ ascii_file = <<>>
    /\ ascii_read = <<>>
    /\ ascii_pc = "none"

ExtraIdle == IngestIdle /\ InterpIdle /\ BatchIdle /\ StrengthIdle /\ ScenarioIdle /\ RecordsIdle /\ DatabaseIdle /\ AsciiIdle

\* The state at the start of absorption_coefficient: cross_section = zeros(grid.size),
\* band_left_index = []; band_right_index = [].
BandsInit ==
    /\ \E n \in 1..MaxBands :
         \E rs \in [1..n -> Ranges] :
            /\ IsRangeList(rs)
            /\ \E ts \in [1..n -> TempSets] :
                  bands = [k \in 1..n |->
                             [start |-> rs[k][1], end |-> rs[k][2], temps |-> ts[k]]]
    /\ grid = [k \in 1..GridSize |-> GridLow + k - 1]
    /\ temperature \in 1..MaxTemp
    /\ bi = 1
    /\ band_left_index = <<>>
    /\ band_right_index = <<>>
    /\ cross_section = [k \in 1..GridSize |-> 0]
    /\ claimer = <<>>
    /\ last = NoStep

(***************************************************************************)
(* Specifications.                                                         *)
(***************************************************************************)
InitBands == BandsInit /\ LinesIdle /\ WindowIdle /\ CallsIdle /\ ExtraIdle

SpecBands == InitBands /\ [][BandStep]_vars

NormalizeNext == ParseRecord \/ Construct

InitNormalize == NormalizeInit /\ BandsIdle /\ WindowIdle /\ CallsIdle /\ ExtraIdle

SpecNormalize == InitNormalize /\ [][NormalizeNext]_vars

WindowNext == GridPointStep \/ LineStep

InitWindow == WindowInit /\ BandsIdle /\ LinesIdle /\ CallsIdle /\ ExtraIdle

SpecWindow == InitWindow /\ [][WindowNext]_vars

AbsorbNext ==
    \/ \E c \in Calls : StartCall(c)
    \/ \E c \in Calls : Prepare(c)
    \/ \E c \in Calls : AssignGamma(c)
    \/ \E c \in Calls : AssignAlpha(c)
    \/ \E c \in Calls : Evaluate(c)
    \/ \E c \in Calls : Update(c)

InitAbsorb == AbsorbInit /\ BandsIdle /\ ExtraIdle

\* Calls that may overlap.
SpecAbsorb == InitAbsorb /\ [][AbsorbNext]_vars

SequentialNext ==
    \/ \E c \in Calls : StartCallAfter(c)
    \/ \E c \in Calls : Prepare(c)
    \/ \E c \in Calls : AssignGamma(c)
    \/ \E c \in Calls : AssignAlpha(c)
    \/ \E c \in Calls : Evaluate(c)
    \/ \E c \in Calls : Update(c)

\* Calls made one after the other.
SpecSequential == InitAbsorb /\ [][SequentialNext]_vars

CoreIdle == BandsIdle /\ LinesIdle /\ WindowIdle /\ CallsIdle

IngestNext == IngestTable \/ CreateBands

InitIngest == IngestInit /\ CoreIdle /\ InterpIdle /\ BatchIdle /\ StrengthIdle /\ ScenarioIdle /\ RecordsIdle /\ DatabaseIdle /\ AsciiIdle

SpecIngest == InitIngest /\ [][IngestNext]_vars

(***************************************************************************)
(* Claims about the ingestion of tabulated data.                           *)
(***************************************************************************)
BandKey(band) == band[1].band_params

\* The tables of all bands of self.bands, as a sequence.
RECURSIVE Flatten(_)
Flatten(bs) == IF bs = <<>> THEN <<>> ELSE Flatten(SubSeq(bs, 1, Len(bs) - 1)) \o bs[Len(bs)]

\* The number of entries of the list equal to x.
Count(list, x) == Cardinality({j \in 1..Len(list) : list[j] = x})

\* C11: create_bands returns the equivalence classes of its tables under equality
\* of band_params: every table is in exactly one band, the tables of a band share
\* their band_params, and no two bands have the same band_params.
C11_BandsAreKeyClasses ==
    ingest = "done" =>
        /\ \A j \in 1..Len(tables) :
              Count(Flatten(self_bands), tables[j]) = Count(tables, tables[j])
        /\ \A b \in 1..Len(self_bands) : \A j \in 1..Len(self_bands[b]) :
              self_bands[b][j].band_params = BandKey(self_bands[b])
        /\ \A b \in 1..Len(self_bands) : \A c \in 1..Len(self_bands) :
              b # c => BandKey(self_bands[b]) # BandKey(self_bands[c])

\* C12: after download_from_web no band holds two tables with the same
\* temperature and pressure (HitranCIA: the same temperature).
C12_NoDuplicateConditions ==
    ingest = "done" =>
        \A b \in 1..Len(self_bands) :
            \A i \in 1..Len(self_bands[b]) : \A j \in 1..Len(self_bands[b]) :
                (i # j) =>
                    \/ self_bands[b][i].temperature # self_bands[b][j].temperature
                    \/ self_bands[b][i].pressure # self_bands[b][j].pressure

\* A download that repeated the conditions of a table within one band has ended.
C12_Witness ==
    /\ ingest = "done"
    /\ \E i \in 1..Len(files) : \E j \in 1..Len(files) : i # j /\ files[i] = files[j]
    /\ \E b \in 1..Len(self_bands) : Len(self_bands[b]) > 1

\* C29: the duplicate filter drops a table only when a retained table has the same
\* temperature, pressure and band key together (HitranCIA: temperature and band
\* key): every file read so far has a retained table with its combination.
C29_DropsOnlyDuplicates ==
    \A j \in 1..(fi - 1) :
        j <= Len(files) =>
            \E i \in 1..Len(tables) :
                /\ tables[i].temperature = files[j].temperature
                /\ tables[i].band_params = files[j].band_params
                /\ tables[i].pressure = files[j].pressure

\* C13: create_bands given no table raises ValueError and self.bands is not
\* assigned; an assigned self.bands is never empty.
C13_EmptyTablesRaise ==
    /\ (ingest # "loop" /\ tables = <<>>) => (ingest = "ValueError" /\ self_bands = <<>>)
    /\ ingest = "done" => (self_bands # <<>> /\ \A b \in 1..Len(self_bands) : self_bands[b] # <<>>)

\* create_bands was handed no table.
C13_Witness == ingest = "ValueError" /\ tables = <<>> /\ fi > Len(files)

(***************************************************************************)
(* Claims about absorption_coefficient calls.                              *)
(***************************************************************************)
\* What the call handed back: its return value or its exception.
Result(c) == [pc |-> calls[c].pc, error |-> calls[c].error, k |-> calls[c].k]

\* C8: a call that runs alone returns, with one value per grid point, whichever
\* of Doppler, Lorentz and Voigt the line-profile object is; no call ends on a
\* half-width that was never computed.
C8_EveryProfileCompletes ==
    \A c \in Calls :
        (Ended(c) /\ ~overlap) =>
            calls[c].pc = "done" /\ Len(calls[c].k) = Len(wavenumber)

\* C9: a call whose steps interleave with those of another call on the same line
\* set and the same line-profile object returns what it returns when run alone:
\* every sum is the sum over the call's own half-widths.
C9_CallsDoNotInterfere ==
    \A c \in Calls :
        Ended(c) =>
            /\ calls[c].error # "ValueError"
            /\ calls[c].pc = "done" => calls[c].k = calls[c].alone

\* C10: calls leave the stored arrays of the line set and the line-profile object
\* attached to it as the constructor left them, and two calls with the same
\* arguments, one after the other, hand back the same result.
C10_CallsLeaveLineSetUnchanged ==
    /\ lines = constructed
    /\ impl = "spectral_lines" => profiles[0] = NewProfile
    /\ \A c \in Calls : \A d \in Calls :
          (Ended(c) /\ Ended(d) /\ calls[c].args = calls[d].args) =>
              Result(c) = Result(d)

\* Two calls with the same arguments have run one after the other and each has
\* returned a sum with at least one line in it.
C10_Witness ==
    /\ ~overlap
    /\ \A c \in Calls : calls[c].pc = "done" /\ calls[c].k[1] # <<>>
    /\ calls[1].args = calls[2].args
    /\ lines = constructed

\* The shifted centers of call c, in the order of the stored lines.
ShiftedOf(c) == pressure_shift_transition_wavenumbers(lines, calls[c].args.pressure)

C25_UpdateAfterShift ==
    \A c \in Calls :
        /\ profiles[c].doppler_halfwidth.bound =>
              profiles[c].doppler_halfwidth.val =
                  doppler_broadened_halfwidth(calls[c].args.temperature, lines.mass, ShiftedOf(c))
        /\ calls[c].alpha.bound =>
              \A k \in 1..Len(calls[c].alpha.val) :
                  calls[c].alpha.val[k].v = calls[c].vstar_sorted[k]

(***************************************************************************)
(* Claims about the cut-off window.                                        *)
(***************************************************************************)
\* Line j of vstar_sorted was summed at grid point g (lines.py, hitran.py).
SummedAt(j, g) == g < gi /\ j \in summed[g]

\* Line i was added at grid point g (spectral_lines.py).
AddedAt(i, g) == i < li /\ g \in added[i]

FloatWindowNext == FloatGridPointStep \/ FloatLineStep

\* The two loops on float64 values.
SpecFloatWindow == InitWindow /\ [][FloatWindowNext]_vars

\* The (line, grid point) pairs added up by the loop over the grid points, the
\* lines named by their position in vstar, and by the loop over the lines.
PairsSummed ==
    UNION {{<<argsort(vstar)[j], g>> : j \in summed[g]} : g \in 1..Len(summed)}

PairsAdded == UNION {{<<i, g>> : g \in added[i]} : i \in 1..Len(added)}

\* C28: for the same lines, ascending grid and cut_off, the loop over the grid
\* points and the loop over the lines add up the same set of (line, grid point)
\* pairs: the pairs whose wavenumber and shifted center are at most cut_off apart.
C28_SamePairs ==
    (gi > Len(wavenumber) /\ li > Len(vstar)) =>
        /\ PairsSummed = PairsAdded
        /\ PairsAdded = {p \in (1..Len(vstar)) \X (1..Len(wavenumber)) :
                            Abs(vstar[p[1]] - wavenumber[p[2]]) <= cut_off}

(***************************************************************************)
(* Claims about the line-record normaliser.                                *)
(***************************************************************************)
Constructed == lines.status = "ok"

ConstructorEnded == lines.status # "none"

\* C5: the constructor given an empty batch raises EmptySpectraError, and it
\* never returns a line set with zero lines.
C5_EmptyBatchRaises ==
    /\ (ConstructorEnded /\ records = <<>>) => lines.status = "EmptySpectraError"
    /\ Constructed => Len(lines.v) > 0

\* C6: right after construction the arrays of the line set are in ascending
\* order of the center wavenumber v.
C6_SortedAfterConstruction == Constructed => IsAscending(lines.v)

\* C7: in the constructed line set the isotopologue id of a line is 10 when the
\* id of its record is 0, and the id of its record otherwise.
C7_IsotopologueRemap ==
    Constructed =>
        \A k \in 1..Len(lines.iso) :
            lines.iso[k] = IF records[lines.line[k]].iso = 0 THEN 10
                           ELSE records[lines.line[k]].iso

\* A line set holding a line whose record had id 0 and a line whose record had
\* another id.
C7_Witness ==
    /\ Constructed
    /\ \E k \in 1..Len(lines.iso) : records[lines.line[k]].iso = 0 /\ lines.iso[k] = 10
    /\ \E k \in 1..Len(lines.iso) : records[lines.line[k]].iso # 0

(***************************************************************************)
(* Claims about the tabulated cross-section resolver.                      *)
(***************************************************************************)
IntersectsGrid(b) == ~OutsideGrid(bands[b], grid)

StrictlyNested(inner, outer) ==
    /\ bands[outer].start < bands[inner].start
    /\ bands[inner].end < bands[outer].end

Closer(b1, b2) ==
    NearestTemperature(bands[b1], temperature) < NearestTemperature(bands[b2], temperature)

BandsDone == bi > Len(bands)

\* C2: when the call has processed every band, for two bands that intersect the
\* grid, the inner one strictly nested in the outer one and the outer one closer
\* in temperature to the query, every grid index of the inner band's range holds
\* the outer band's data.  Stated for the band lists in which these two bands are
\* the only ones that intersect the grid (every other band is skipped as lying
\* outside the grid), which is the two-band scenario of the claim.
C2_OuterBandKept ==
    BandsDone =>
        \A o \in 1..Len(bands) : \A i \in 1..Len(bands) :
            ( /\ IntersectsGrid(o) /\ IntersectsGrid(i)
              /\ StrictlyNested(i, o)
              /\ Closer(o, i)
              /\ \A x \in 1..Len(bands) : x \notin {o, i} => ~IntersectsGrid(x) )
            => \A k \in (BandLeft(bands[i], grid) + 1)..BandRight(bands[i], grid) :
                  cross_section[k] = o

\* C3: when a band's range lies inside an already claimed range, the band is kept
\* exactly when its nearest Table temperature is closer to the query temperature
\* than that of the band that claimed the enclosing range.
C3_ComparedWithClaimer ==
    (last.kind = "inside" /\ last.left0 < last.right) =>
        (last.kept <=> Closer(last.band, claimer[last.claimed]))

\* C4: a band that only partially overlaps the claimed ranges (it overlaps one
\* of them and extends beyond all of them) changes no output value that an
\* earlier band has written.
C4_PartialKeepsEarlier ==
    [][(/\ last'.kind = "partial"
        /\ \A j \in 1..Len(band_right_index) : last'.right > band_right_index[j]) =>
          \A k \in 1..Len(cross_section) :
              cross_section[k] # 0 => cross_section'[k] = cross_section[k]]_vars

(***************************************************************************)
(* Claims about the interpolation and the clamp.                           *)
(***************************************************************************)
InterpNext == InterpolateBand \/ ReturnCrossSection

InitInterp == InterpInit /\ CoreIdle /\ IngestIdle /\ BatchIdle /\ StrengthIdle /\ ScenarioIdle /\ RecordsIdle /\ DatabaseIdle /\ AsciiIdle

SpecInterp == InitInterp /\ [][InterpNext]_vars

\* C14: every element of the array returned by absorption_coefficient of
\* HitranCrossSection and of HitranCIA is greater than or equal to zero, whatever
\* (also negative) values the interpolation wrote.
C14_ReturnedNonNegative ==
    returned.bound => \A g \in DOMAIN returned.val : returned.val[g].mantissa >= 0

\* An array with a negative interpolant was returned.
C14_Witness ==
    /\ returned.bound
    /\ \E g \in DOMAIN interpolated : interpolated[g].mantissa < 0

\* C15: HitranCrossSection chooses the interpolation from the tables of the band:
\* one table, 1-D; several tables at one temperature or at one pressure, 2-D over
\* the variable that varies; both varying, scattered interpolation per wavenumber,
\* linear from 4 tables on and nearest-neighbour up to 3, then 1-D to the grid.
C15_InterpolationByTables ==
    (this_kind = "xsc" /\ method # "none") =>
        LET n == Len(cur_band)
            nt == Cardinality(SetOf(cur_band, "temperature"))
            np == Cardinality(SetOf(cur_band, "pressure"))
        IN /\ n = 1 => method = "interp1d"
           /\ (n > 1 /\ nt = 1 /\ np > 1) => method = "interp2d over pressure"
           /\ (n > 1 /\ np = 1 /\ nt > 1) => method = "interp2d over temperature"
           /\ (n > 1 /\ nt = 1 /\ np = 1) =>
                  method \in {"interp2d over pressure", "interp2d over temperature"}
           /\ (nt > 1 /\ np > 1 /\ n >= 4) => method = "LinearNDInterpolator, interp1d"
           /\ (nt > 1 /\ np > 1 /\ n <= 3) => method = "NearestNDInterpolator, interp1d"

\* A band of 4 tables with both variables varying was interpolated.
C15_Witness ==
    /\ this_kind = "xsc"
    /\ method = "LinearNDInterpolator, interp1d"
    /\ Len(cur_band) = 4
(***************************************************************************)
(* Claims about the ingestion of a batch of line records.                  *)
(***************************************************************************)
BatchNext == IngestRecord \/ EndOfBatch

InitBatch == BatchInit /\ CoreIdle /\ IngestIdle /\ InterpIdle /\ StrengthIdle /\ ScenarioIdle /\ RecordsIdle /\ DatabaseIdle /\ AsciiIdle

SpecBatch == InitBatch /\ [][BatchNext]_vars

\* Hitran.parse_records alone.
InitParseRecords == InitBatch /\ path = "database"

SpecParseRecords == InitParseRecords /\ [][BatchNext]_vars

IsNumber(text) == text \in {"1", "2"}

\* The entries kept for record j.
KeptOf(j) == {i \in 1..Len(kept) : kept[i].rec = j}

\* The loop has left record j behind.
Passed(j) == j < bk

Accepted(n) ==
    {j \in 1..(n - 1) : /\ IsNumber(batch[j].id) /\ IsNumber(batch[j].n_air)
                        /\ (IsNumber(batch[j].n_self) \/ batch[j].n_self = "#")}

\* C23: in Hitran.parse_records all parameter columns have the same length, the
\* number of accepted records, and the values at one index of every column come
\* from the same input record, whatever well-formed and malformed records came.
C23_ColumnsParallel ==
    path = "database" =>
        /\ \A s \in DOMAIN columns : Len(columns[s]) = Cardinality(Accepted(bk))
        /\ \A s \in DOMAIN columns : \A i \in 1..Len(columns[s]) :
              /\ i <= Len(columns.id) /\ columns[s][i].rec = columns.id[i].rec
              /\ columns[s][i].value \in
                    {Convert(Parameters[g].dtype, batch[columns[s][i].rec][t]).value :
                        g \in {h \in 1..Len(Parameters) : Parameters[h].shortname = s},
                        t \in IF s = "n_self" THEN {"n_self", "n_air"} ELSE {s}}

\* parse_records returned after a record with the marker in n_air and an accepted
\* record with the marker in n_self.
C23_Witness ==
    /\ path = "database"
    /\ outcome = "returned"
    /\ \E j \in 1..Len(batch) : batch[j].n_air = "#" /\ IsNumber(batch[j].id)
    /\ \E j \in Accepted(bk) : batch[j].n_self = "#"
    /\ columns.id # <<>>

\* A record all of whose fields are numbers (and, in hitran.py, whose id is the
\* requested one).
Readable(rec) ==
    /\ IsNumber(rec.id) /\ IsNumber(rec.n_air) /\ IsNumber(rec.n_self)
    /\ path \in {"web", "ascii"} => Convert("int", rec.id).value = molecule_id

\* C17: a record with a field that is neither a number nor the marker is dropped on
\* its own: the ingestion of the batch raises nothing because of it, and the
\* readable records before and after it are ingested.
C17_BadRecordDroppedAlone ==
    (\E j \in 1..Len(batch) : "abc" \in {batch[j].id, batch[j].n_air, batch[j].n_self}) =>
        /\ outcome # "ValueError"
        /\ outcome # "loop" =>
              \A j \in 1..Len(batch) : Readable(batch[j]) => KeptOf(j) # {}

\* C18: in hitran.py a record whose molecule id is not the requested one ends the
\* ingestion with RecordError, in download_from_web and in read_from_ascii: the
\* loop never goes past such a record and the batch is never returned without it.
C18_MismatchRaisesRecordError ==
    path \in {"web", "ascii"} =>
        \A j \in 1..Len(batch) :
            (IsNumber(batch[j].id) /\ Convert("int", batch[j].id).value # molecule_id) =>
                /\ ~Passed(j)
                /\ outcome # "returned"
(***************************************************************************)
(* Claims about the temperature correction of the strengths.               *)
(***************************************************************************)
StrengthsNext == ParseRecord \/ Construct \/ CorrectLineStrengths

InitStrengths == NormalizeInit /\ BandsIdle /\ WindowIdle /\ CallsIdle /\ ExtraIdle

SpecStrengths == InitStrengths /\ [][StrengthsNext]_vars

\* The value of temperature_correct_line_strength for line k of the line set at t.
FactorOf(k, t) ==
    FactorAtom(temperature_correct_line_strength(t, lines.iso[k], lines.line[k], lines.v[k]))

ScenarioNext == CallWithLorentz \/ EvaluateLorentz

InitScenario == ScenarioInit /\ CoreIdle /\ IngestIdle /\ InterpIdle /\ BatchIdle /\ StrengthIdle /\ RecordsIdle /\ DatabaseIdle /\ AsciiIdle

SpecScenario == InitScenario /\ [][ScenarioNext]_vars

\* Strength 1, half-width 0.1, grid [999.9, 1000.0, 1000.1].
IsTheScenario ==
    /\ scenario.s = Frac(1, 1)
    /\ scenario.gamma = Frac(1, 10)
    /\ scenario.spacing = Frac(1, 10)

\* gamma/(pi*gamma^2), as the fraction that is divided by pi.
Peak(gamma) == FracDiv(gamma, FracMul(gamma, gamma))

\* C20: for one line at 1000 with corrected strength 1 and the Lorentz half-width
\* 0.1, absorption_coefficient on the grid [999.9, 1000.0, 1000.1] returns the peak
\* value gamma/(pi*gamma^2) at the line center and one and the same value at the
\* two grid points 0.1 away from it.
C20_LorentzScenario ==
    (IsTheScenario /\ call_result.bound) =>
        /\ call_result.val.status = "returned"
        /\ Len(call_result.val.k) = 3
        /\ call_result.val.k[2] = Peak(scenario.gamma)
        /\ call_result.val.k[1] = call_result.val.k[3]

\* What lorentz_profile itself gives: the peak at the center, the same value on both
\* sides, and at a distance of one half-width half the peak.
LorentzProfileValues ==
    Len(profile_values) = 3 =>
        /\ profile_values[2] = FracMul(scenario.s, Peak(scenario.gamma))
        /\ profile_values[1] = profile_values[3]
        /\ scenario.spacing = scenario.gamma =>
              FracAdd(profile_values[1], profile_values[1]) = profile_values[2]

(***************************************************************************)
(* Claims about ascii_table_records.                                       *)
(***************************************************************************)
RecordsNext == ReadBlock

InitRecords == RecordsInit /\ CoreIdle /\ IngestIdle /\ InterpIdle /\ BatchIdle /\ StrengthIdle /\ ScenarioIdle /\ DatabaseIdle /\ AsciiIdle

SpecRecords == InitRecords /\ [][RecordsNext]_vars

\* The consumer's for loop keeps taking records while the generator yields.
SpecRecordsFair == SpecRecords /\ WF_vars(RecordsNext)

\* The lines of a text: the text split at the newlines; the empty piece after a
\* final newline is no line.
LinesOf(txt) == DropEmptyLast(Split(txt))

\* C21: for every text and every block size the records yielded are the text split
\* at the newline characters, in order, each line once and whole, whether it lies
\* inside a block, ends at a block boundary or spans several blocks.
C21_RecordsAreTheLines ==
    generator = "exhausted" => yielded \in {Split(response), LinesOf(response)}

\* C30: for every finite text the generator is eventually exhausted without an
\* exception, also for the empty text and for a text whose length is a multiple of
\* block_size.
C30_GeneratorFinishes == <>(generator = "exhausted")

(***************************************************************************)
(* Claims about the database round trip of HitranCrossSection.             *)
(***************************************************************************)
DatabaseNext == IngestTable \/ CreateBands \/ CreateDatabase \/ LoadFromDatabase

InitDatabase ==
    DatabaseInit /\ CoreIdle /\ InterpIdle /\ BatchIdle /\ StrengthIdle /\ ScenarioIdle
                 /\ RecordsIdle /\ AsciiIdle

SpecDatabase == InitDatabase /\ [][DatabaseNext]_vars

\* C22: create_database followed by load_from_database reproduces the bands: band
\* by band and table by table the loaded tables have the band_params, temperature
\* and pressure of the originals.
C22_DatabaseRoundTrip ==
    db_state \notin {"none", "net", "written"} =>
        /\ db_state = "loaded"
        /\ Len(db_bands) = Len(self_bands)
        /\ \A b \in 1..Len(self_bands) :
              /\ Len(db_bands[b]) = Len(self_bands[b])
              /\ \A j \in 1..Len(self_bands[b]) :
                    /\ db_bands[b][j].band_params = self_bands[b][j].band_params
                    /\ db_bands[b][j].temperature = self_bands[b][j].temperature
                    /\ db_bands[b][j].pressure = self_bands[b][j].pressure

\* C26: the conversion from Torr to Pa is applied once: a table built by
\* parse_records from a header pressure of p Torr, and the same table loaded from
\* the database, have the pressure p*133.332.
C26_TorrToPaOnce ==
    /\ \A j \in 1..Len(files) :
          db_state # "none" => files[j].pressure = TimesTorrToPa(TorrOf(files[j].pressure))
    /\ \A j \in 1..Len(TablesOf(db_bands)) :
          TablesOf(db_bands)[j].pressure =
              TimesTorrToPa(TorrOf(TablesOf(db_bands)[j].pressure))

(***************************************************************************)
(* Claims about the ascii round trip of the line parameters.               *)
(***************************************************************************)
AsciiNext == WriteToAscii \/ ReadRecord

InitAscii ==
    AsciiInit /\ CoreIdle /\ IngestIdle /\ InterpIdle /\ BatchIdle /\ StrengthIdle
              /\ ScenarioIdle /\ RecordsIdle /\ DatabaseIdle

SpecAscii == InitAscii /\ [][AsciiNext]_vars

\* C27: write_to_ascii followed by parse_ascii_record is the identity on the
\* isotopologue ids 1 to 36: the id parsed from a written record is the id that
\* was written, and no written record fails to parse.
C27_IsotopologueRoundTrip ==
    /\ ascii_pc # "ValueError"
    /\ Len(ascii_read) <= Len(ascii_lines)
    /\ \A k \in 1..Len(ascii_read) : ascii_read[k] = ascii_lines[k]
    /\ ascii_pc = "read" => Len(ascii_read) = Len(ascii_lines)

\* A file with the ids 10 and 36 was written and read back.
C27_Witness ==
    /\ ascii_pc = "read"
    /\ \E k \in 1..Len(ascii_lines) : ascii_lines[k] = 10 /\ ascii_file[k] = <<"0">>
    /\ \E k \in 1..Len(ascii_lines) : ascii_lines[k] = 36 /\ ascii_file[k] = <<"Z">>
    /\ Len(ascii_read) = 2
====
